---- MODULE Spec2Model ----
(***************************************************************************)
(* State-machine model of the ESP-NOW protocol module of the remote        *)
(* controller: dispatcher and security gate (handlePacket), the pairing    *)
(* state machine (StartPairing / CancelPairing / GetPairingState /         *)
(* handlePairingResponse / handlePairingReject) and the approved-peer      *)
(* store (PeerStore) with its NVS persistence.                             *)
(***************************************************************************)
EXTENDS Integers, Sequences, FiniteSets, TLC

(***************************************************************************)
(* Program constants                                                       *)
(***************************************************************************)
SYNC_BYTE_ == 170
PROTOCOL_VERSION_ == 1
MAX_PAYLOAD_SIZE_ == 200
HEADER_SIZE == 6
CRC_SIZE == 2
MAX_APPROVED_PEERS == 4
MAX_DEVICE_NAME_LEN == 16
PAIRING_RESPONSE_TIMEOUT_MS == 10000
RAW_QUEUE_LEN == 10

\* sizeof of the packed pairing payloads
PairingRequestPayloadSize == 17
PairingResponsePayloadSize == 47
PairingConfirmPayloadSize == 23
PairingRejectPayloadSize == 7

\* enum class MsgType
MsgDeviceDiscovery == 1
MsgConfigRequest == 3
MsgConfigSet == 5
MsgCommand == 7
MsgStatusUpdate == 9
MsgPairingRequest == 20
MsgPairingResponse == 21
MsgPairingConfirm == 22
MsgPairingReject == 23

\* enum class DeviceType
DevRemoteController == 1
DevFatigueTester == 2

\* MAC addresses
ZERO_MAC == "00:00:00:00:00:00"
BROADCAST_MAC == "FF:FF:FF:FF:FF:FF"
TEST_UNIT_MAC_ == "24:6F:28:00:00:01"
MY_MAC == "24:6F:28:00:00:AA"

(***************************************************************************)
(* Bounds of the model                                                     *)
(***************************************************************************)
\* configTICK_RATE_HZ of the FreeRTOS build
TickRateHz == 100
\* operations of the environment in one run that grow the state: datagrams
\* delivered by the radio, StartPairing calls, advances of the tick counter
MaxOps == 3
\* capacity of the event queue the application hands to Init
ProtoQueueLen == 1


(***************************************************************************)
(* Values the environment can put on the air                               *)
(***************************************************************************)
PEER_A == "24:6F:28:00:00:0A"
PEER_B == "24:6F:28:00:00:0B"
PEER_C == "24:6F:28:00:00:0C"
PEER_D == "24:6F:28:00:00:0D"
PEER_E == "24:6F:28:00:00:0E"

PAIRING_SECRET == "secret"
WRONG_SECRET == "wrong"

NameUnitA == <<"U", "n", "i", "t", "A">>
NameUnknown == <<"U", "n", "k", "n", "o", "w", "n">>
NameStored == <<"O", "l", "d">>
NamePreconfigured ==
    <<"P", "r", "e", "-", "c", "o", "n", "f", "i", "g", "u", "r", "e", "d">>
NoName == <<"nullptr">>

\* values esp_fill_random can produce for a challenge
Challenges == {"c1", "c2"}

(***************************************************************************)
(* espnow_security.hpp                                                     *)
(***************************************************************************)
IsZeroMac(mac) == mac = ZERO_MAC

MacEquals(a, b) == a = b

\* HMAC-SHA-256 as a keyed digest term: equal exactly for equal key and message
HmacSha256(key, msg) == <<"hmac", key, msg>>

ComputePairingHmac(challenge) == HmacSha256(PAIRING_SECRET, challenge)

VerifyPairingHmacNoCheck(challenge, received_hmac) == TRUE

VerifyPairingHmac(challenge, received_hmac) ==
    ComputePairingHmac(challenge) = received_hmac

(***************************************************************************)
(* TickType_t: a 32-bit unsigned counter, kept as two 16-bit halves         *)
(***************************************************************************)
TickOf(hi, lo) == [hi |-> hi, lo |-> lo]

TickAdd(t, n) ==
    LET s == t.lo + n
    IN  [lo |-> s % (2^16), hi |-> (t.hi + (s \div (2^16))) % (2^16)]

\* a > b on uint32
TickGT(a, b) == a.hi > b.hi \/ (a.hi = b.hi /\ a.lo > b.lo)

pdMS_TO_TICKS(ms) == (ms * TickRateHz) \div 1000

(***************************************************************************)
(* espnow_peer_store.cpp                                                   *)
(***************************************************************************)
Slots == 1..MAX_APPROVED_PEERS

\* a zeroed ApprovedPeer
EmptyPeer ==
    [mac |-> ZERO_MAC, device_type |-> 0, name |-> <<>>,
     paired_timestamp |-> 0, valid |-> FALSE]

EmptySettings == [i \in Slots |-> EmptyPeer]

\* strncpy(dst, src, sizeof(name) - 1) into a name field, then NUL terminated
Strncpy(src) ==
    SubSeq(src, 1, IF Len(src) < MAX_DEVICE_NAME_LEN - 1
                   THEN Len(src) ELSE MAX_DEVICE_NAME_LEN - 1)

\* esp_crc32_le over the bytes of the table, as a digest term
Crc32(sec) == <<"crc32", sec>>

NoBlob == <<"ESP_ERR_NVS_NOT_FOUND">>

SaveOutcomes == {"ok", "open_fail", "blob_fail", "crc_fail"}

\* PeerStore::Save: the blob is written first, the checksum second
Save(sec, nvs, outcome) ==
    CASE outcome = "open_fail" -> nvs
      [] outcome = "blob_fail" -> nvs
      [] outcome = "crc_fail"  -> [nvs EXCEPT !.blob = sec]
      [] OTHER                 -> [blob |-> sec, crc |-> Crc32(sec)]

\* sizeof(ApprovedPeer): 6 + 1 + 16, padded to 4-byte alignment, + 4 + 1,
\* padded again
SizeofApprovedPeer == 32

\* the size nvs_get_blob reports for a stored table
BlobSize(blob) == Cardinality(DOMAIN blob) * SizeofApprovedPeer

\* the load trusting any blob of the right size
LoadNoCrcCheck(nvs) ==
    IF nvs.blob # NoBlob
       /\ BlobSize(nvs.blob) = MAX_APPROVED_PEERS * SizeofApprovedPeer
    THEN nvs.blob
    ELSE EmptySettings

\* the load half of PeerStore::Init, NVS opened
Load(nvs) ==
    IF /\ nvs.blob # NoBlob
       /\ BlobSize(nvs.blob) = MAX_APPROVED_PEERS * SizeofApprovedPeer
       /\ nvs.crc # NoBlob
       /\ Crc32(nvs.blob) = nvs.crc
    THEN nvs.blob
    ELSE EmptySettings

\* slots holding a valid entry for mac, and free slots
SlotsOf(sec, mac) == {i \in Slots : sec[i].valid /\ MacEquals(sec[i].mac, mac)}

\* every slot taken for free
FreeSlotsAll(sec) == Slots

FreeSlots(sec) == {i \in Slots : ~sec[i].valid}

\* the slot a loop in descending index order would find
LastSlot(found) == CHOOSE i \in found : \A j \in found : i >= j

\* the slot a loop over the table in index order finds first
FirstSlot(found) == CHOOSE i \in found : \A j \in found : i <= j

\* the approval test looking at the table only
IsPeerApprovedTableOnly(sec, has_pre, mac) ==
    ~IsZeroMac(mac) /\ \E i \in Slots : sec[i].valid /\ MacEquals(sec[i].mac, mac)

\* PeerStore::IsPeerApproved
IsPeerApproved(sec, has_pre, mac) ==
    IF IsZeroMac(mac) THEN FALSE
    ELSE IF has_pre /\ MacEquals(TEST_UNIT_MAC_, mac) THEN TRUE
    ELSE \E i \in Slots : sec[i].valid /\ MacEquals(sec[i].mac, mac)

\* AddPeer without the test for the all-zero MAC
AddPeerNoZeroCheck(sec, nvs, mac, type, name, save) ==
    IF SlotsOf(sec, mac) # {} THEN
        LET i == FirstSlot(SlotsOf(sec, mac))
            s2 == [sec EXCEPT ![i].device_type = type,
                              ![i].name = IF name # NoName THEN Strncpy(name) ELSE @]
        IN  [ok |-> TRUE, sec |-> s2, nvs |-> Save(s2, nvs, save)]
    ELSE IF FreeSlots(sec) # {} THEN
        LET i == FirstSlot(FreeSlots(sec))
            s2 == [sec EXCEPT ![i] =
                     [mac |-> mac, device_type |-> type,
                      name |-> IF name # NoName THEN Strncpy(name)
                               ELSE Strncpy(NameUnknown),
                      paired_timestamp |-> 0, valid |-> TRUE]]
        IN  [ok |-> TRUE, sec |-> s2, nvs |-> Save(s2, nvs, save)]
    ELSE [ok |-> FALSE, sec |-> sec, nvs |-> nvs]

\* PeerStore::AddPeer: [ok, sec, nvs]
AddPeer(sec, nvs, mac, type, name, save) ==
    IF IsZeroMac(mac) THEN [ok |-> FALSE, sec |-> sec, nvs |-> nvs]
        ELSE IF SlotsOf(sec, mac) # {} THEN
            LET i == FirstSlot(SlotsOf(sec, mac))
                s2 == [sec EXCEPT ![i].device_type = type,
                                  ![i].name = IF name # NoName THEN Strncpy(name) ELSE @]
            IN  [ok |-> TRUE, sec |-> s2, nvs |-> Save(s2, nvs, save)]
        ELSE IF FreeSlots(sec) # {} THEN
            LET i == FirstSlot(FreeSlots(sec))
                s2 == [sec EXCEPT ![i] =
                         [mac |-> mac, device_type |-> type,
                          name |-> IF name # NoName THEN Strncpy(name)
                                   ELSE Strncpy(NameUnknown),
                          paired_timestamp |-> 0, valid |-> TRUE]]
            IN  [ok |-> TRUE, sec |-> s2, nvs |-> Save(s2, nvs, save)]
        ELSE [ok |-> FALSE, sec |-> sec, nvs |-> nvs]

\* RemovePeer reporting success without invalidating the entry
RemovePeerKeepsEntry(sec, nvs, mac, save) ==
    [ok |-> SlotsOf(sec, mac) # {}, sec |-> sec, nvs |-> nvs]

\* PeerStore::RemovePeer: [ok, sec, nvs]
RemovePeer(sec, nvs, mac, save) ==
    IF SlotsOf(sec, mac) # {} THEN
        LET s2 == [sec EXCEPT ![FirstSlot(SlotsOf(sec, mac))] = EmptyPeer]
        IN  [ok |-> TRUE, sec |-> s2, nvs |-> Save(s2, nvs, save)]
    ELSE [ok |-> FALSE, sec |-> sec, nvs |-> nvs]

\* PeerStore::ClearAll: [sec, nvs]
ClearAll(sec, nvs, save) ==
    LET s2 == [i \in Slots |-> EmptyPeer]
    IN  [sec |-> s2, nvs |-> Save(s2, nvs, save)]

\* PeerStore::GetPeerCount
GetPeerCount(sec) == Cardinality({i \in Slots : sec[i].valid})

\* s_preconfigured_peer as PeerStore::Init fills it: kept beside the table
PreconfiguredPeer ==
    [mac |-> TEST_UNIT_MAC_, device_type |-> DevFatigueTester,
     name |-> Strncpy(NamePreconfigured), paired_timestamp |-> 0, valid |-> TRUE]

\* GetFirstPeerOfType looking at the table only
GetFirstPeerOfTypeTableOnly(sec, has_pre, type) ==
    LET found == {i \in Slots : sec[i].valid /\ sec[i].device_type = type}
    IN  IF found # {}
        THEN [ok |-> TRUE, mac |-> sec[FirstSlot(found)].mac]
        ELSE [ok |-> FALSE, mac |-> ZERO_MAC]

\* GetFirstPeerOfType taking the first valid entry whatever its type
GetFirstPeerOfTypeAnyEntry(sec, has_pre, type) ==
    LET found == {i \in Slots : sec[i].valid}
    IN  IF has_pre /\ PreconfiguredPeer.device_type = type
        THEN [ok |-> TRUE, mac |-> PreconfiguredPeer.mac]
        ELSE IF found # {}
        THEN [ok |-> TRUE, mac |-> sec[FirstSlot(found)].mac]
        ELSE [ok |-> FALSE, mac |-> ZERO_MAC]

\* PeerStore::GetFirstPeerOfType: [ok, mac]; mac_out is the caller's buffer,
\* left as it was (zeroed here) when nothing is found
GetFirstPeerOfType(sec, has_pre, type) ==
    LET found == {i \in Slots : sec[i].valid /\ sec[i].device_type = type}
    IN  IF has_pre /\ PreconfiguredPeer.device_type = type
        THEN [ok |-> TRUE, mac |-> PreconfiguredPeer.mac]
        ELSE IF found # {}
        THEN [ok |-> TRUE, mac |-> sec[FirstSlot(found)].mac]
        ELSE [ok |-> FALSE, mac |-> ZERO_MAC]

\* espnow::GetTargetDeviceMac
GetTargetDeviceMac(sec, has_pre) ==
    GetFirstPeerOfType(sec, has_pre, DevFatigueTester)

(***************************************************************************)
(* State                                                                    *)
(***************************************************************************)
VARIABLES
    s_pairing_state_,          \* espnow::PairingState
    s_my_challenge_,           \* challenge of the current session
    s_pending_responder_mac_,  \* responder that passed HMAC verification
    s_pairing_timeout_tick_,   \* deadline of the current session
    s_security_,               \* SecuritySettings: the approved-peer table
    s_has_preconfigured,       \* a factory peer is provisioned
    s_next_msg_id_,            \* uint8_t sequence counter
    s_raw_recv_queue_,         \* RawMsg queue, receive callback -> recvTask
    s_proto_event_queue_,      \* ProtoEvent queue, recvTask -> application
    nvs,                       \* persisted blob and checksum
    tick,                      \* xTaskGetTickCount()
    tx,                        \* datagrams esp_now_send accepted in the last operation
    rx_pc,                     \* position of recvTask inside handlePairingResponse
    rx_msg,                    \* RawMsg recvTask is handling
    last,                      \* the last operation, its result and the path it took
    hist,                      \* history: challenges of cancelled sessions; whether
                               \* the current session has seen a PairingReject or
                               \* ignored a response of the wrong device type, how
                               \* many PairingConfirm it sent and the tick at which
                               \* it started; the MACs AppRemovePeer called
                               \* RemovePeer for and AddPeer has not stored since
    n_ops                      \* how much of MaxOps is used

vars == <<s_pairing_state_, s_my_challenge_, s_pending_responder_mac_,
          s_pairing_timeout_tick_, s_security_, s_has_preconfigured,
          s_next_msg_id_, s_raw_recv_queue_, s_proto_event_queue_, nvs, tick,
          tx, rx_pc, rx_msg, hist, n_ops, last>>

\* the module state a handler reads and writes, as one record
Cur ==
    [state |-> s_pairing_state_, challenge |-> s_my_challenge_,
     pending |-> s_pending_responder_mac_, deadline |-> s_pairing_timeout_tick_,
     sec |-> s_security_, nvs |-> nvs, events |-> s_proto_event_queue_,
     msg_id |-> s_next_msg_id_, tx |-> <<>>, note |-> "none"]

Commit(g) ==
    /\ s_pairing_state_' = g.state
    /\ s_my_challenge_' = g.challenge
    /\ s_pending_responder_mac_' = g.pending
    /\ s_pairing_timeout_tick_' = g.deadline
    /\ s_security_' = g.sec
    /\ nvs' = g.nvs
    /\ s_proto_event_queue_' = g.events
    /\ s_next_msg_id_' = g.msg_id
    /\ tx' = g.tx

(***************************************************************************)
(* Sending                                                                  *)
(***************************************************************************)
\* esp_now_send: fails for an address that is no registered peer (the zero
\* MAC is never registered, tryAddEspNowPeer refuses it), may fail otherwise
EspNowSend(dst_mac, esp_ok) == esp_ok /\ ~IsZeroMac(dst_mac)

\* sendPacketTo: [ok, g]
sendPacketTo(g, dst_mac, device_id, type, payload, payload_len, esp_ok) ==
    IF payload_len > MAX_PAYLOAD_SIZE_ THEN [ok |-> FALSE, g |-> g]
    ELSE
        LET g1 == [g EXCEPT !.msg_id = (@ + 1) % 256]
            dgram == [dst |-> dst_mac, sync |-> SYNC_BYTE_,
                      version |-> PROTOCOL_VERSION_, device_id |-> device_id,
                      type |-> type, id |-> g.msg_id, len |-> payload_len,
                      payload |-> payload]
        IN  IF EspNowSend(dst_mac, esp_ok)
            THEN [ok |-> TRUE, g |-> [g1 EXCEPT !.tx = Append(@, dgram)]]
            ELSE [ok |-> FALSE, g |-> g1]

\* a send that makes room in a full queue by discarding the oldest item
QueueSendDropOldest(queue, item, capacity) ==
    IF Len(queue) < capacity THEN Append(queue, item)
    ELSE Append(Tail(queue), item)

\* xQueueSend(queue, item, 0): the item is dropped when the queue is full
QueueSend(queue, item, capacity) ==
    IF Len(queue) < capacity THEN Append(queue, item) ELSE queue

(***************************************************************************)
(* Pairing functions called by the application task                         *)
(***************************************************************************)
\* StartPairing without the test of the state
StartPairingNoGuard(g, now, challenge, esp_ok) ==
    LET g1 == [g EXCEPT !.challenge = challenge]
        req == [requester_mac |-> MY_MAC,
                device_type |-> DevRemoteController,
                expected_peer_type |-> DevFatigueTester,
                challenge |-> challenge,
                protocol_version |-> PROTOCOL_VERSION_]
        sent == sendPacketTo(g1, BROADCAST_MAC, 0, MsgPairingRequest, req,
                             PairingRequestPayloadSize, esp_ok)
    IN  IF ~sent.ok
        THEN [ret |-> FALSE, g |-> [sent.g EXCEPT !.note = "send_failed"]]
        ELSE [ret |-> TRUE,
              g |-> [sent.g EXCEPT
                       !.state = "WaitingForResponse",
                       !.deadline = TickAdd(now, pdMS_TO_TICKS(PAIRING_RESPONSE_TIMEOUT_MS)),
                       !.note = "started"]]

\* StartPairing refusing only a session in flight
StartPairingAfterEnd(g, now, challenge, esp_ok) ==
    IF g.state = "WaitingForResponse"
    THEN [ret |-> FALSE, g |-> [g EXCEPT !.note = "busy"]]
    ELSE StartPairingNoGuard(g, now, challenge, esp_ok)

\* StartPairing opening the session before the broadcast is attempted
StartPairingArmsFirst(g, now, challenge, esp_ok) ==
    LET r == StartPairingAfterEnd(g, now, challenge, TRUE)
    IN  IF g.state # "Idle" THEN [ret |-> FALSE, g |-> [g EXCEPT !.note = "busy"]]
        ELSE IF esp_ok THEN r
        ELSE [ret |-> FALSE, g |-> [r.g EXCEPT !.tx = g.tx, !.note = "send_failed"]]

\* espnow::StartPairing: [ret, g]
StartPairing(g, now, challenge, esp_ok) ==
    IF g.state # "Idle" THEN [ret |-> FALSE, g |-> [g EXCEPT !.note = "busy"]]
    ELSE
        LET g1 == [g EXCEPT !.challenge = challenge]
            req == [requester_mac |-> MY_MAC,
                    device_type |-> DevRemoteController,
                    expected_peer_type |-> DevFatigueTester,
                    challenge |-> challenge,
                    protocol_version |-> PROTOCOL_VERSION_]
            sent == sendPacketTo(g1, BROADCAST_MAC, 0, MsgPairingRequest, req,
                                 PairingRequestPayloadSize, esp_ok)
        IN  IF ~sent.ok
            THEN [ret |-> FALSE, g |-> [sent.g EXCEPT !.note = "send_failed"]]
            ELSE [ret |-> TRUE,
                  g |-> [sent.g EXCEPT
                           !.state = "WaitingForResponse",
                           !.deadline = TickAdd(now, pdMS_TO_TICKS(PAIRING_RESPONSE_TIMEOUT_MS)),
                           !.note = "started"]]

\* espnow::CancelPairing
CancelPairing(g) ==
    IF g.state # "Idle" THEN [g EXCEPT !.state = "Idle", !.note = "cancelled"]
    ELSE [g EXCEPT !.note = "was_idle"]

\* the timeout test firing already at the deadline tick
PairingTimedOutAtDeadline(g, now) ==
    g.state = "WaitingForResponse" /\ ~TickGT(g.deadline, now)

\* the timeout test of espnow::GetPairingState
PairingTimedOut(g, now) ==
    g.state = "WaitingForResponse" /\ TickGT(now, g.deadline)

\* espnow::GetPairingState: [ret, g]
GetPairingState(g, now) ==
    LET g1 == IF PairingTimedOut(g, now)
              THEN [g EXCEPT !.state = "Failed", !.note = "timed_out"]
              ELSE [g EXCEPT !.note = "polled"]
    IN  [ret |-> g1.state, g |-> g1]


(***************************************************************************)
(* Pairing message handlers, run by recvTask                                *)
(***************************************************************************)
\* handlePairingResponse entered without the state test
HPR_BeginAnyState(g, pkt) == [go |-> TRUE, g |-> g]

\* an entry test that also fails a session whose deadline has passed
HPR_BeginChecksDeadline(g, pkt) ==
    IF g.state # "WaitingForResponse"
    THEN [go |-> FALSE, g |-> [g EXCEPT !.note = "unexpected"]]
    ELSE IF TickGT(tick, g.deadline)
    THEN [go |-> FALSE, g |-> [g EXCEPT !.state = "Failed", !.note = "timed_out"]]
    ELSE [go |-> TRUE, g |-> g]

\* handlePairingResponse, the state test on entry: [go, g]
HPR_Begin(g, pkt) ==
    IF g.state # "WaitingForResponse"
    THEN [go |-> FALSE, g |-> [g EXCEPT !.note = "unexpected"]]
    ELSE [go |-> TRUE, g |-> g]

\* the checks with a failed HMAC treated like a wrong device type
HPR_VerifyIgnoresBadHmac(g, pkt) ==
    IF pkt.len < PairingResponsePayloadSize
    THEN [go |-> FALSE, g |-> [g EXCEPT !.state = "Failed", !.note = "too_short"]]
    ELSE IF pkt.payload.device_type # DevFatigueTester
    THEN [go |-> FALSE, g |-> [g EXCEPT !.note = "wrong_type"]]
    ELSE IF ~VerifyPairingHmac(g.challenge, pkt.payload.hmac_response)
    THEN [go |-> FALSE, g |-> [g EXCEPT !.note = "hmac_failed"]]
    ELSE [go |-> TRUE, g |-> [g EXCEPT !.pending = pkt.payload.responder_mac]]

\* the checks with a wrong device type failing the session
HPR_VerifyFailsWrongType(g, pkt) ==
    IF pkt.len < PairingResponsePayloadSize
    THEN [go |-> FALSE, g |-> [g EXCEPT !.state = "Failed", !.note = "too_short"]]
    ELSE IF pkt.payload.device_type # DevFatigueTester
    THEN [go |-> FALSE, g |-> [g EXCEPT !.state = "Failed", !.note = "wrong_type"]]
    ELSE IF ~VerifyPairingHmac(g.challenge, pkt.payload.hmac_response)
    THEN [go |-> FALSE, g |-> [g EXCEPT !.state = "Failed", !.note = "hmac_failed"]]
    ELSE [go |-> TRUE, g |-> [g EXCEPT !.pending = pkt.payload.responder_mac]]

\* handlePairingResponse, length, device type and HMAC checks: [go, g]
HPR_Verify(g, pkt) ==
    IF pkt.len < PairingResponsePayloadSize
    THEN [go |-> FALSE, g |-> [g EXCEPT !.state = "Failed", !.note = "too_short"]]
    ELSE IF pkt.payload.device_type # DevFatigueTester
    THEN [go |-> FALSE, g |-> [g EXCEPT !.note = "wrong_type"]]
    ELSE IF ~VerifyPairingHmac(g.challenge, pkt.payload.hmac_response)
    THEN [go |-> FALSE, g |-> [g EXCEPT !.state = "Failed", !.note = "hmac_failed"]]
    ELSE [go |-> TRUE, g |-> [g EXCEPT !.pending = pkt.payload.responder_mac]]

\* handlePairingResponse, building and sending the PairingConfirm: [go, g]
HPR_Confirm(g, pkt, esp_ok) ==
    LET confirm == [confirmer_mac |-> MY_MAC,
                    hmac_response |-> ComputePairingHmac(pkt.payload.challenge),
                    success |-> 1]
        sent == sendPacketTo(g, pkt.payload.responder_mac, 0, MsgPairingConfirm,
                             confirm, PairingConfirmPayloadSize, esp_ok)
    IN  IF ~sent.ok
        THEN [go |-> FALSE,
              g |-> [sent.g EXCEPT !.state = "Failed", !.note = "confirm_failed"]]
        ELSE [go |-> TRUE, g |-> sent.g]

\* the "pairing complete" ProtoEvent
PairingCompleteEvent(pkt) ==
    [type |-> MsgPairingResponse, device_id |-> pkt.payload.device_type,
     sequence_id |-> 0, payload |-> pkt.payload.device_name,
     payload_len |-> MAX_DEVICE_NAME_LEN, src_mac |-> pkt.payload.responder_mac]

\* handlePairingResponse, adding the peer and ending the session
HPR_Add(g, pkt, save) ==
    LET added == AddPeer(g.sec, g.nvs, pkt.payload.responder_mac,
                         DevFatigueTester, pkt.payload.device_name, save)
    IN  IF added.ok
        THEN [g EXCEPT !.sec = added.sec, !.nvs = added.nvs,
                       !.state = "Complete",
                       !.events = QueueSend(@, PairingCompleteEvent(pkt), ProtoQueueLen),
                       !.note = "complete"]
        ELSE [g EXCEPT !.state = "Failed", !.note = "add_failed"]

\* handlePairingResponse as one call
handlePairingResponse(g, pkt, esp_ok, save) ==
    LET b == HPR_Begin(g, pkt)
    IN  IF ~b.go THEN b.g
        ELSE LET v == HPR_Verify(b.g, pkt)
             IN  IF ~v.go THEN v.g
                 ELSE LET c == HPR_Confirm(v.g, pkt, esp_ok)
                      IN  IF ~c.go THEN c.g ELSE HPR_Add(c.g, pkt, save)

\* handlePairingReject ending the session on a reject
handlePairingRejectFails(g, pkt) ==
    IF g.state # "WaitingForResponse" THEN [g EXCEPT !.note = "reject_unexpected"]
    ELSE IF pkt.len < PairingRejectPayloadSize THEN [g EXCEPT !.note = "reject_short"]
    ELSE [g EXCEPT !.state = "Failed", !.note = "reject_logged"]

\* handlePairingReject: the reason is only logged
handlePairingReject(g, pkt) ==
    IF g.state # "WaitingForResponse" THEN [g EXCEPT !.note = "reject_unexpected"]
    ELSE IF pkt.len < PairingRejectPayloadSize THEN [g EXCEPT !.note = "reject_short"]
    ELSE [g EXCEPT !.note = "reject_logged"]

(***************************************************************************)
(* Dispatcher                                                               *)
(***************************************************************************)
\* the checks of handlePacket without the test of the protocol version
DecodeErrorAnyVersion(msg) ==
    IF msg.nbytes < HEADER_SIZE + CRC_SIZE THEN "too_short"
    ELSE IF msg.sync # SYNC_BYTE_ THEN "bad_sync"
    ELSE IF msg.len > MAX_PAYLOAD_SIZE_ THEN "bad_length"
    ELSE IF msg.nbytes < HEADER_SIZE + msg.len + CRC_SIZE THEN "truncated"
    ELSE IF ~msg.crc_ok THEN "crc_mismatch"
    ELSE "ok"

\* the header and CRC checks of handlePacket, in the order of the code
DecodeError(msg) ==
    IF msg.nbytes < HEADER_SIZE + CRC_SIZE THEN "too_short"
    ELSE IF msg.sync # SYNC_BYTE_ THEN "bad_sync"
    ELSE IF msg.version # PROTOCOL_VERSION_ THEN "bad_version"
    ELSE IF msg.len > MAX_PAYLOAD_SIZE_ THEN "bad_length"
    ELSE IF msg.nbytes < HEADER_SIZE + msg.len + CRC_SIZE THEN "truncated"
    ELSE IF ~msg.crc_ok THEN "crc_mismatch"
    ELSE "ok"

\* the ProtoEvent handlePacket builds for a message that passed the gate
ProtoEventOf(msg) ==
    [type |-> msg.type, device_id |-> msg.device_id, sequence_id |-> msg.id,
     payload |-> msg.payload, payload_len |-> msg.len, src_mac |-> msg.src]

\* the gate without its early return: every decoded message becomes an event
GateAndForwardNoReturn(g, has_pre, msg) ==
    [g EXCEPT !.events = QueueSend(@, ProtoEventOf(msg), ProtoQueueLen),
              !.note = "forwarded"]

\* the security gate and the event for the higher layers
GateAndForward(g, has_pre, msg) ==
    IF ~IsPeerApproved(g.sec, has_pre, msg.src)
    THEN [g EXCEPT !.note = "gate_rejected"]
    ELSE [g EXCEPT !.events = QueueSend(@, ProtoEventOf(msg), ProtoQueueLen),
                   !.note = "forwarded"]

\* handlePacket as one call
handlePacket(g, has_pre, msg, esp_ok, save) ==
    IF DecodeError(msg) # "ok" THEN [g EXCEPT !.note = DecodeError(msg)]
    ELSE IF msg.type = MsgPairingResponse
    THEN handlePairingResponse(g, msg, esp_ok, save)
    ELSE IF msg.type = MsgPairingReject
    THEN handlePairingReject(g, msg)
    ELSE GateAndForward(g, has_pre, msg)


(***************************************************************************)
(* Datagrams the radio can deliver                                          *)
(***************************************************************************)
ResponderChallenge == "responder-challenge"

\* a well-formed datagram: header, len payload bytes, matching CRC
Dgram(src, type, len, payload) ==
    [src |-> src, nbytes |-> HEADER_SIZE + len + CRC_SIZE, sync |-> SYNC_BYTE_,
     version |-> PROTOCOL_VERSION_, device_id |-> 1, type |-> type, id |-> 1,
     len |-> len, crc_ok |-> TRUE, payload |-> payload]

ResponsePayload(mac, device_type, hmac) ==
    [responder_mac |-> mac, device_type |-> device_type,
     challenge |-> ResponderChallenge, hmac_response |-> hmac,
     device_name |-> NameUnitA]

Response(src, mac, device_type, hmac) ==
    Dgram(src, MsgPairingResponse, PairingResponsePayloadSize,
          ResponsePayload(mac, device_type, hmac))

\* what a responder can put into hmac_response
Hmacs ==
    {HmacSha256(PAIRING_SECRET, c) : c \in Challenges}
        \cup {HmacSha256(WRONG_SECRET, "c1")}

ResponseDatagrams ==
    {Response(PEER_A, PEER_A, DevFatigueTester, h) : h \in Hmacs}
        \cup {Response(PEER_A, PEER_A, DevRemoteController,
                       HmacSha256(PAIRING_SECRET, "c1")),
              Response(PEER_A, BROADCAST_MAC, DevFatigueTester,
                       HmacSha256(PAIRING_SECRET, "c1")),
              [Response(PEER_A, PEER_A, DevFatigueTester,
                        HmacSha256(PAIRING_SECRET, "c1"))
                 EXCEPT !.len = PairingResponsePayloadSize - 1,
                        !.nbytes = HEADER_SIZE + PairingResponsePayloadSize - 1 + CRC_SIZE]}

\* PairingRejectReason: one the switch names, one it does not
RejectReasons == {0, 5}

RejectDatagrams ==
    {Dgram(PEER_A, MsgPairingReject, PairingRejectPayloadSize,
           [rejecter_mac |-> PEER_A, reason |-> r]) : r \in RejectReasons}
        \cup {Dgram(PEER_B, MsgPairingReject, PairingRejectPayloadSize - 1,
                    [rejecter_mac |-> PEER_B, reason |-> 0])}

\* message types that are neither PairingResponse nor PairingReject
GateTypes == {MsgStatusUpdate}

GateDatagrams ==
    {Dgram(src, type, 0, <<>>) : src \in {TEST_UNIT_MAC_, PEER_A}, type \in GateTypes}

MalformedDatagrams ==
    {[Dgram(TEST_UNIT_MAC_, MsgStatusUpdate, 0, <<>>) EXCEPT !.crc_ok = FALSE]}

Datagrams ==
    ResponseDatagrams \cup RejectDatagrams \cup GateDatagrams \cup MalformedDatagrams

NoMsg == <<"none">>

(***************************************************************************)
(* Initial state: espnow::Init has run                                      *)
(***************************************************************************)
\* what PeerStore::Init can find in NVS
InitNvs ==
    {[blob |-> NoBlob, crc |-> NoBlob]}

\* the tick counter at the moment Init returns: just booted, or 10 s before
\* the 32-bit counter wraps
InitTicks ==
    {TickOf(0, 0),
     TickOf(2^16 - 1, 2^16 - pdMS_TO_TICKS(PAIRING_RESPONSE_TIMEOUT_MS))}

NoHist ==
    [cancelled |-> {}, rejected |-> FALSE, ignored |-> FALSE, confirms |-> 0,
     started |-> TickOf(0, 0), removed |-> {}]

\* espnow::Init has returned: NVS held one of stores, the tick is one of ticks
InitFrom(stores, ticks) ==
    /\ s_pairing_state_ = "Idle"
    /\ s_my_challenge_ = "zero"
    /\ s_pending_responder_mac_ = ZERO_MAC
    /\ s_pairing_timeout_tick_ = TickOf(0, 0)
    /\ nvs \in stores
    /\ s_security_ = Load(nvs)
    /\ s_has_preconfigured = ~IsZeroMac(TEST_UNIT_MAC_)
    /\ s_next_msg_id_ = 1
    /\ s_raw_recv_queue_ = <<>>
    /\ s_proto_event_queue_ = <<>>
    /\ tick \in ticks
    /\ tx = <<>>
    /\ rx_pc = "wait"
    /\ rx_msg = NoMsg
    /\ hist = NoHist
    /\ last = [op |-> "Init", ret |-> TRUE, note |-> "none"]
    /\ n_ops = 0

Init == InitFrom(InitNvs, InitTicks)

(***************************************************************************)
(* Actions                                                                  *)
(***************************************************************************)
Done(op, ret, note) == last' = [op |-> op, ret |-> ret, note |-> note]

\* the history after recvTask ran a handler on msg and left the record g
HistRx(g, msg) ==
    [hist EXCEPT
       !.rejected = @ \/ g.note = "reject_logged",
       !.ignored = @ \/ g.note = "wrong_type",
       !.confirms = @ + Cardinality({k \in 1..Len(g.tx) :
                                        g.tx[k].type = MsgPairingConfirm}),
       !.removed = IF g.note = "complete"
                   THEN @ \ {msg.payload.responder_mac} ELSE @]

AppStartPairing ==
    /\ n_ops < MaxOps
    /\ \E challenge \in Challenges, esp_ok \in BOOLEAN :
         LET r == StartPairing(Cur, tick, challenge, esp_ok)
         IN  /\ Commit(r.g) /\ Done("StartPairing", r.ret, r.g.note)
             /\ hist' = IF r.ret
                        THEN [hist EXCEPT !.rejected = FALSE, !.ignored = FALSE,
                                          !.confirms = 0, !.started = tick]
                        ELSE hist
    /\ n_ops' = n_ops + 1
    /\ UNCHANGED <<s_has_preconfigured, s_raw_recv_queue_, tick, rx_pc, rx_msg>>

AppCancelPairing ==
    /\ LET g == CancelPairing(Cur)
       IN  Commit(g) /\ Done("CancelPairing", TRUE, g.note)
    /\ hist' = IF s_pairing_state_ # "Idle"
               THEN [hist EXCEPT !.cancelled = @ \cup {s_my_challenge_}]
               ELSE hist
    /\ UNCHANGED <<s_has_preconfigured, s_raw_recv_queue_, tick,
                   rx_pc, rx_msg, n_ops>>

AppGetPairingState ==
    /\ LET r == GetPairingState(Cur, tick)
       IN  Commit(r.g) /\ Done("GetPairingState", r.ret, r.g.note)
    /\ UNCHANGED <<s_has_preconfigured, s_raw_recv_queue_, tick,
                   rx_pc, rx_msg, hist, n_ops>>

\* espnow::RemoveApprovedPeer
AppRemoveApprovedPeer ==
    /\ \E mac \in {PEER_A}, save \in SaveOutcomes :
         LET r == RemovePeer(s_security_, nvs, mac, save)
         IN  /\ Commit([Cur EXCEPT !.sec = r.sec, !.nvs = r.nvs])
             /\ Done("RemoveApprovedPeer", r.ok, mac)
    /\ UNCHANGED <<s_has_preconfigured, s_raw_recv_queue_, tick,
                   rx_pc, rx_msg, hist, n_ops>>

\* the application takes the oldest ProtoEvent off its queue
AppReceiveEvent ==
    /\ s_proto_event_queue_ # <<>>
    /\ Commit([Cur EXCEPT !.events = Tail(@)])
    /\ Done("xQueueReceive", TRUE, "event")
    /\ UNCHANGED <<s_has_preconfigured, s_raw_recv_queue_, tick,
                   rx_pc, rx_msg, hist, n_ops>>

TickSteps ==
    {pdMS_TO_TICKS(PAIRING_RESPONSE_TIMEOUT_MS),
     pdMS_TO_TICKS(PAIRING_RESPONSE_TIMEOUT_MS) + 1}

\* time passes
TickAdvance ==
    /\ n_ops < MaxOps
    /\ \E d \in TickSteps : tick' = TickAdd(tick, d)
    /\ n_ops' = n_ops + 1
    /\ Commit(Cur)
    /\ Done("tick", TRUE, "none")
    /\ UNCHANGED <<s_has_preconfigured, s_raw_recv_queue_,
                   rx_pc, rx_msg, hist>>

\* In this specification the radio delivers the next datagram once recvTask
\* has taken the previous one: the raw queue only buffers, so the handlers see
\* the same sequences of datagrams and application calls as with a deeper queue.
RadioPaced == s_raw_recv_queue_ = <<>>

\* espnowRecvCb for one of the datagrams: copies it into the raw queue, never
\* blocks
RecvCbFrom(datagrams) ==
    /\ n_ops < MaxOps
    /\ RadioPaced
    /\ \E msg \in datagrams :
         s_raw_recv_queue_' =
            IF msg.nbytes < HEADER_SIZE + CRC_SIZE
               \/ msg.nbytes > HEADER_SIZE + MAX_PAYLOAD_SIZE_ + CRC_SIZE
            THEN s_raw_recv_queue_
            ELSE QueueSend(s_raw_recv_queue_, msg, RAW_QUEUE_LEN)
    /\ n_ops' = n_ops + 1
    /\ Commit(Cur)
    /\ Done("espnowRecvCb", TRUE, "none")
    /\ UNCHANGED <<s_has_preconfigured, tick, rx_pc, rx_msg, hist>>

espnowRecvCb == RecvCbFrom(Datagrams)

\* a recvTask whose event enqueue waits for room in the application's queue
RecvTaskWaitsForRoom ==
    /\ s_raw_recv_queue_ # <<>>
    /\ Len(s_proto_event_queue_) < ProtoQueueLen
    /\ \E esp_ok \in BOOLEAN, save \in SaveOutcomes :
         LET msg == Head(s_raw_recv_queue_)
             g == handlePacket(Cur, s_has_preconfigured, msg, esp_ok, save)
         IN  /\ Commit(g) /\ Done("handlePacket", msg, g.note)
             /\ hist' = HistRx(g, msg)
    /\ s_raw_recv_queue_' = Tail(s_raw_recv_queue_)
    /\ UNCHANGED <<s_has_preconfigured, tick, rx_pc, rx_msg, n_ops>>

\* recvTask: one datagram taken from the raw queue and handled to the end
RecvTask ==
    /\ s_raw_recv_queue_ # <<>>
    /\ \E esp_ok \in BOOLEAN, save \in SaveOutcomes :
         LET msg == Head(s_raw_recv_queue_)
             g == handlePacket(Cur, s_has_preconfigured, msg, esp_ok, save)
         IN  /\ Commit(g) /\ Done("handlePacket", msg, g.note)
             /\ hist' = HistRx(g, msg)
    /\ s_raw_recv_queue_' = Tail(s_raw_recv_queue_)
    /\ UNCHANGED <<s_has_preconfigured, tick, rx_pc, rx_msg, n_ops>>

Next ==
    \/ AppStartPairing
    \/ AppCancelPairing
    \/ AppGetPairingState
    \/ AppRemoveApprovedPeer
    \/ AppReceiveEvent
    \/ TickAdvance
    \/ espnowRecvCb
    \/ RecvTask

Spec == Init /\ [][Next]_vars

(***************************************************************************)
(* The same program with recvTask preemptible inside handlePairingResponse: *)
(* the application task runs on the other core, or while recvTask blocks in *)
(* esp_now_send or in the NVS write of AddPeer.                             *)
(***************************************************************************)
\* recvTask takes a datagram; a PairingResponse is handled up to the state test
RxBegin ==
    /\ rx_pc = "wait"
    /\ s_raw_recv_queue_ # <<>>
    /\ LET msg == Head(s_raw_recv_queue_)
       IN  IF DecodeError(msg) = "ok" /\ msg.type = MsgPairingResponse
           THEN LET b == HPR_Begin(Cur, msg)
                IN  /\ Commit(b.g) /\ Done("handlePacket", msg, b.g.note)
                    /\ rx_pc' = IF b.go THEN "verify" ELSE "wait"
                    /\ rx_msg' = IF b.go THEN msg ELSE NoMsg
                    /\ hist' = hist
           ELSE LET g == handlePacket(Cur, s_has_preconfigured, msg, TRUE, "ok")
                IN  /\ Commit(g) /\ Done("handlePacket", msg, g.note)
                    /\ hist' = HistRx(g, msg)
                    /\ UNCHANGED <<rx_pc, rx_msg>>
    /\ s_raw_recv_queue_' = Tail(s_raw_recv_queue_)
    /\ UNCHANGED <<s_has_preconfigured, tick, n_ops>>

\* the checks of the response and the PairingConfirm
RxVerify ==
    /\ rx_pc = "verify"
    /\ \E esp_ok \in BOOLEAN :
         LET v == HPR_Verify(Cur, rx_msg)
             c == HPR_Confirm(v.g, rx_msg, esp_ok)
             g == IF v.go THEN c.g ELSE v.g
             go == v.go /\ c.go
         IN  /\ Commit(g) /\ Done("handlePairingResponse", go, g.note)
             /\ hist' = HistRx(g, rx_msg)
             /\ rx_pc' = IF go THEN "add" ELSE "wait"
             /\ rx_msg' = IF go THEN rx_msg ELSE NoMsg
    /\ UNCHANGED <<s_has_preconfigured, s_raw_recv_queue_, tick, n_ops>>

\* AddPeer, the final state and the notification
RxAdd ==
    /\ rx_pc = "add"
    /\ \E save \in SaveOutcomes :
         LET g == HPR_Add(Cur, rx_msg, save)
         IN  /\ Commit(g) /\ Done("handlePairingResponse", TRUE, g.note)
             /\ hist' = HistRx(g, rx_msg)
    /\ rx_pc' = "wait"
    /\ rx_msg' = NoMsg
    /\ UNCHANGED <<s_has_preconfigured, s_raw_recv_queue_, tick, n_ops>>

NextConc ==
    \/ AppStartPairing
    \/ AppCancelPairing
    \/ AppGetPairingState
    \/ AppRemoveApprovedPeer
    \/ AppReceiveEvent
    \/ TickAdvance
    \/ espnowRecvCb
    \/ RxBegin
    \/ RxVerify
    \/ RxAdd

SpecConc == Init /\ [][NextConc]_vars

(***************************************************************************)
(* The same program in the field: NVS may hold a full table or a blob whose *)
(* checksum was never written, the application manages the peer table, and  *)
(* the radio delivers handshake messages of all four types.                 *)
(***************************************************************************)
StoredPeer(mac) ==
    [mac |-> mac, device_type |-> DevFatigueTester, name |-> Strncpy(NameStored),
     paired_timestamp |-> 0, valid |-> TRUE]

\* a table four pairings filled
FullSettings ==
    [i \in Slots |-> StoredPeer(CASE i = 1 -> PEER_B [] i = 2 -> PEER_C
                                  [] i = 3 -> PEER_D [] OTHER -> PEER_E)]

\* the table after the peers of slots 1 and 3 were removed
SparseSettings == [FullSettings EXCEPT ![1] = EmptyPeer, ![3] = EmptyPeer]

\* what PeerStore::Init can find in NVS: a full table, a table with free
\* slots, or a blob whose checksum was never written
InitStoreNvs ==
    {Save(FullSettings, [blob |-> NoBlob, crc |-> NoBlob], "ok"),
     Save(SparseSettings, [blob |-> NoBlob, crc |-> NoBlob], "ok"),
     Save(FullSettings, [blob |-> NoBlob, crc |-> NoBlob], "crc_fail")}

InitStore == InitFrom(InitStoreNvs, {TickOf(0, 0)})

\* the arguments of the application's AddApprovedPeer calls
AddCalls ==
    {<<PEER_A, DevFatigueTester, NoName>>,
     <<PEER_C, DevRemoteController, NameUnitA>>,
     <<ZERO_MAC, DevFatigueTester, NameUnitA>>,
     <<BROADCAST_MAC, DevFatigueTester, NameUnitA>>}

RemoveCalls == {PEER_A, PEER_C, TEST_UNIT_MAC_}

\* espnow::AddApprovedPeer
AppAddApprovedPeer ==
    /\ n_ops < MaxOps
    /\ \E call \in AddCalls, save \in SaveOutcomes :
         LET r == AddPeer(s_security_, nvs, call[1], call[2], call[3], save)
         IN  /\ Commit([Cur EXCEPT !.sec = r.sec, !.nvs = r.nvs])
             /\ Done("AddApprovedPeer", r.ok, call)
             /\ hist' = IF r.ok THEN [hist EXCEPT !.removed = @ \ {call[1]}]
                        ELSE hist
    /\ n_ops' = n_ops + 1
    /\ UNCHANGED <<s_has_preconfigured, s_raw_recv_queue_, tick, rx_pc, rx_msg>>

\* espnow::RemoveApprovedPeer for any of the MACs the application knows
AppRemovePeer ==
    /\ n_ops < MaxOps
    /\ \E mac \in RemoveCalls, save \in SaveOutcomes :
         LET r == RemovePeer(s_security_, nvs, mac, save)
         IN  /\ Commit([Cur EXCEPT !.sec = r.sec, !.nvs = r.nvs])
             /\ Done("RemoveApprovedPeer", r.ok, mac)
             /\ hist' = [hist EXCEPT !.removed = @ \cup {mac}]
    /\ n_ops' = n_ops + 1
    /\ UNCHANGED <<s_has_preconfigured, s_raw_recv_queue_, tick, rx_pc, rx_msg>>

\* PeerStore::ClearAll(espnow::GetSecuritySettings())
AppClearAll ==
    /\ n_ops < MaxOps
    /\ \E save \in SaveOutcomes :
         LET r == ClearAll(s_security_, nvs, save)
         IN  /\ Commit([Cur EXCEPT !.sec = r.sec, !.nvs = r.nvs])
             /\ Done("ClearAll", TRUE, "none")
    /\ n_ops' = n_ops + 1
    /\ UNCHANGED <<s_has_preconfigured, s_raw_recv_queue_, tick,
                   rx_pc, rx_msg, hist>>

\* handshake messages of the two types the controller sends itself
HandshakeOnlyTypes == {MsgPairingRequest, MsgPairingConfirm}

StoreDatagrams ==
    {Response(PEER_A, mac, DevFatigueTester, HmacSha256(PAIRING_SECRET, "c1")) :
        mac \in {PEER_A, BROADCAST_MAC, ZERO_MAC}}
      \cup {Response(TEST_UNIT_MAC_, TEST_UNIT_MAC_, DevFatigueTester,
                     HmacSha256(PAIRING_SECRET, "c1"))}
      \cup {Dgram(PEER_C, MsgStatusUpdate, 0, <<>>)}
      \cup {Dgram(src, MsgPairingRequest, PairingRequestPayloadSize,
                  [requester_mac |-> src, device_type |-> DevRemoteController,
                   expected_peer_type |-> DevFatigueTester, challenge |-> "c1",
                   protocol_version |-> PROTOCOL_VERSION_]) :
               src \in {TEST_UNIT_MAC_, PEER_A}}
      \cup {Dgram(src, MsgPairingConfirm, PairingConfirmPayloadSize,
                  [confirmer_mac |-> src,
                   hmac_response |-> HmacSha256(PAIRING_SECRET, "c1"),
                   success |-> 1]) :
               src \in {TEST_UNIT_MAC_, PEER_A}}

StoreRecvCb == RecvCbFrom(StoreDatagrams)

NextStore ==
    \/ AppStartPairing
    \/ AppAddApprovedPeer
    \/ AppRemovePeer
    \/ AppClearAll
    \/ AppReceiveEvent
    \/ StoreRecvCb
    \/ RecvTask

SpecStore == InitStore /\ [][NextStore]_vars

(***************************************************************************)
(* The peer store by itself: what PeerStore::Init finds in NVS, the calls   *)
(* that change the table, the lookup of the target device and restarts.     *)
(***************************************************************************)
\* a table written by a firmware built with one more slot
LongSettings ==
    [i \in 1..(MAX_APPROVED_PEERS + 1) |->
        IF i \in Slots THEN FullSettings[i] ELSE StoredPeer(PEER_A)]

\* what PeerStore::Init can find in NVS: nothing; a full or a sparse table
\* with its checksum; a blob of another size with its checksum; a blob
\* without checksum; a blob with the checksum of an older table
PeersInitNvs ==
    {[blob |-> NoBlob, crc |-> NoBlob],
     [blob |-> FullSettings, crc |-> Crc32(FullSettings)],
     [blob |-> SparseSettings, crc |-> Crc32(SparseSettings)],
     [blob |-> LongSettings, crc |-> Crc32(LongSettings)],
     [blob |-> FullSettings, crc |-> NoBlob],
     [blob |-> FullSettings, crc |-> Crc32(SparseSettings)]}

InitPeers == InitFrom(PeersInitNvs, {TickOf(0, 0)})

\* the device types the application asks for: the two it knows and
\* DeviceType::Unknown
LookupTypes == {DevFatigueTester, DevRemoteController, 0}

\* PeerStore::GetFirstPeerOfType called for one of the types
AppGetFirstPeerOfType ==
    /\ n_ops < MaxOps
    /\ n_ops' = n_ops + 1
    /\ \E type \in LookupTypes :
         Done("GetFirstPeerOfType",
              GetFirstPeerOfType(s_security_, s_has_preconfigured, type), <<type>>)
    /\ Commit(Cur)
    /\ UNCHANGED <<s_has_preconfigured, s_raw_recv_queue_, tick,
                   rx_pc, rx_msg, hist>>

\* the device restarts and espnow::Init runs again: the statics are
\* initialised anew and PeerStore::Init loads the table, if NVS opens
Reboot(open_ok) ==
    /\ s_security_' = IF open_ok THEN Load(nvs) ELSE EmptySettings
    /\ s_pairing_state_' = "Idle"
    /\ s_my_challenge_' = "zero"
    /\ s_pending_responder_mac_' = ZERO_MAC
    /\ s_pairing_timeout_tick_' = TickOf(0, 0)
    /\ s_has_preconfigured' = ~IsZeroMac(TEST_UNIT_MAC_)
    /\ s_next_msg_id_' = 1
    /\ s_raw_recv_queue_' = <<>>
    /\ s_proto_event_queue_' = <<>>
    /\ tick' = TickOf(0, 0)
    /\ tx' = <<>>
    /\ rx_pc' = "wait"
    /\ rx_msg' = NoMsg
    /\ hist' = NoHist
    /\ UNCHANGED nvs

Restart ==
    /\ n_ops < MaxOps
    /\ \E open_ok \in BOOLEAN :
         Reboot(open_ok) /\ Done("Restart", open_ok, "none")
    /\ n_ops' = n_ops + 1

NextPeers ==
    \/ AppAddApprovedPeer
    \/ AppRemovePeer
    \/ AppClearAll
    \/ AppGetFirstPeerOfType
    \/ Restart

SpecPeers == InitPeers /\ [][NextPeers]_vars

(***************************************************************************)
(* The wire format byte by byte: crc16_ccitt, the buffer sendPacketTo       *)
(* builds and the fields handlePacket reads back from a datagram.           *)
(***************************************************************************)
CRC16_POLYNOMIAL_ == 4129

RECURSIVE XorBits(_, _, _)
\* a ^ b on the low n bits
XorBits(a, b, n) ==
    IF n = 0 THEN 0
    ELSE ((a + b) % 2) + 2 * XorBits(a \div 2, b \div 2, n - 1)

\* x with bit j inverted
FlipBitOf(x, j) ==
    LET w == 2 ^ j
    IN  IF (x \div w) % 2 = 1 THEN x - w ELSE x + w

\* x ^ CRC16_POLYNOMIAL_: the polynomial is 2^12 + 2^5 + 2^0
XorPolynomial(x) ==
    IF CRC16_POLYNOMIAL_ = 2 ^ 12 + 2 ^ 5 + 1
    THEN FlipBitOf(FlipBitOf(FlipBitOf(x, 12), 5), 0)
    ELSE XorBits(x, CRC16_POLYNOMIAL_, 16)

RECURSIVE Crc16Shifts(_, _)
\* the inner loop of crc16_ccitt: j more shifts of the uint16_t crc
Crc16Shifts(crc, j) ==
    IF j = 0 THEN crc
    ELSE Crc16Shifts(IF crc >= 32768
                     THEN XorPolynomial((crc * 2) % 65536)
                     ELSE (crc * 2) % 65536,
                     j - 1)

RECURSIVE Crc16Range(_, _, _, _)
\* the outer loop of crc16_ccitt over data[lo..hi], started with crc; the
\* range is folded in halves, in the order of the bytes
Crc16Range(crc, data, lo, hi) ==
    IF lo > hi THEN crc
    ELSE IF lo = hi
    THEN Crc16Shifts(256 * XorBits(crc \div 256, data[lo], 8) + (crc % 256), 8)
    ELSE LET mid == (lo + hi) \div 2
             left == Crc16Range(crc, data, lo, mid)
         IN  IF left >= 0 THEN Crc16Range(left, data, mid + 1, hi) ELSE 0

\* espnow::crc16_ccitt over the first len bytes
crc16_ccitt(data, len) == Crc16Range(65535, data, 1, len)

\* the buffer with the crc stored high byte first
WireBytesCrcHighFirst(dgram) ==
    LET body == <<dgram.sync, dgram.version, dgram.device_id, dgram.type,
                  dgram.id, dgram.len>> \o SubSeq(dgram.payload, 1, dgram.len)
        crc == crc16_ccitt(body, HEADER_SIZE + dgram.len)
    IN  body \o <<crc \div 256, crc % 256>>

\* the buffer sendPacketTo hands to esp_now_send for the datagram it built:
\* the packed header, len payload bytes, the crc as memcpy stores a uint16_t
\* on the little-endian target
WireBytes(dgram) ==
    LET body == <<dgram.sync, dgram.version, dgram.device_id, dgram.type,
                  dgram.id, dgram.len>> \o SubSeq(dgram.payload, 1, dgram.len)
        crc == crc16_ccitt(body, HEADER_SIZE + dgram.len)
    IN  body \o <<crc % 256, crc \div 256>>

\* the datagram a sender with another sync byte or protocol version builds
\* for the same fields and payload, with the crc of what it sends
ForeignBytes(bytes, sync, version) ==
    LET n == Len(bytes) - CRC_SIZE
        body == [SubSeq(bytes, 1, n) EXCEPT ![1] = sync, ![2] = version]
        crc == crc16_ccitt(body, n)
    IN  body \o <<crc % 256, crc \div 256>>

\* what handlePacket reads from the len bytes of a RawMsg: the header
\* fields, whether the crc computed over header and hdr.len payload bytes
\* equals the two bytes that follow them, and the payload
ParseDatagram(src, data) ==
    LET n == Len(data)
        byte(i) == IF i <= n THEN data[i] ELSE 0
        len == byte(HEADER_SIZE)
        fits == n >= HEADER_SIZE + len + CRC_SIZE
    IN  [src |-> src, nbytes |-> n, sync |-> byte(1), version |-> byte(2),
         device_id |-> byte(3), type |-> byte(4), id |-> byte(5), len |-> len,
         crc_ok |-> /\ fits
                    /\ crc16_ccitt(data, HEADER_SIZE + len) =
                          data[HEADER_SIZE + len + 1]
                             + 256 * data[HEADER_SIZE + len + 2],
         payload |-> IF fits THEN SubSeq(data, HEADER_SIZE + 1, HEADER_SIZE + len)
                     ELSE <<>>]

(***************************************************************************)
(* The public send functions. A size_t of the 32-bit target is kept as two  *)
(* 16-bit halves.                                                           *)
(***************************************************************************)
SizeOf(n) == [hi |-> 0, lo |-> n]

SIZE_MAX == [hi |-> 65535, lo |-> 65535]

\* 1 + x in size_t arithmetic
SizeInc(x) ==
    IF x.lo < 65535 THEN [x EXCEPT !.lo = @ + 1]
    ELSE [hi |-> (x.hi + 1) % 65536, lo |-> 0]

\* x > n for a small n
SizeGT(x, n) == x.hi > 0 \/ x.lo > n

\* static_cast<uint8_t>(x)
SizeToU8(x) == x.lo % 256

\* a caller's buffer: a null pointer, or a pointer to bytes
NullBuffer == [ptr |-> "null", bytes |-> <<>>]

Buffer(bytes) == [ptr |-> "buf", bytes |-> bytes]

\* sendPacketToTarget: [ok, g]
sendPacketToTarget(g, has_pre, device_id, type, payload, payload_len, esp_ok) ==
    LET target == GetTargetDeviceMac(g.sec, has_pre)
    IN  IF ~target.ok THEN [ok |-> FALSE, g |-> g]
        ELSE sendPacketTo(g, target.mac, device_id, type, payload,
                          payload_len, esp_ok)

\* espnow::SendDeviceDiscovery
SendDeviceDiscovery(g, esp_ok) ==
    sendPacketTo(g, BROADCAST_MAC, 0, MsgDeviceDiscovery, <<>>, 0, esp_ok)

\* espnow::SendConfigRequest
SendConfigRequest(g, has_pre, device_id, esp_ok) ==
    sendPacketToTarget(g, has_pre, device_id, MsgConfigRequest, <<>>, 0, esp_ok)

\* espnow::SendConfigSet: [ok, g]
SendConfigSet(g, has_pre, device_id, config_data, config_len, esp_ok) ==
    IF SizeGT(config_len, MAX_PAYLOAD_SIZE_) THEN [ok |-> FALSE, g |-> g]
    ELSE sendPacketToTarget(g, has_pre, device_id, MsgConfigSet,
                            config_data.bytes, SizeToU8(config_len), esp_ok)

\* espnow::SendCommand: [ok, g, overrun]; overrun: the length test passed and
\* memcpy is asked to copy more than cmd_buf holds behind the command byte
SendCommand(g, has_pre, device_id, command_id, payload, payload_len, esp_ok) ==
    IF payload.ptr # "null" /\ SizeGT(payload_len, 0)
    THEN IF SizeGT(SizeInc(payload_len), MAX_PAYLOAD_SIZE_)
         THEN [ok |-> FALSE, g |-> g, overrun |-> FALSE]
         ELSE IF SizeGT(payload_len, MAX_PAYLOAD_SIZE_ - 1)
         THEN [ok |-> FALSE, g |-> g, overrun |-> TRUE]
         ELSE LET r == sendPacketToTarget(
                          g, has_pre, device_id, MsgCommand,
                          <<command_id>> \o SubSeq(payload.bytes, 1, payload_len.lo),
                          SizeToU8(SizeInc(payload_len)), esp_ok)
              IN  [ok |-> r.ok, g |-> r.g, overrun |-> FALSE]
    ELSE LET r == sendPacketToTarget(g, has_pre, device_id, MsgCommand,
                                     <<command_id>>, 1, esp_ok)
         IN  [ok |-> r.ok, g |-> r.g, overrun |-> FALSE]

\* SendCommand going on after the memcpy that overran cmd_buf: [ok, g]
SendCommandAfterOverrun(g, has_pre, device_id, payload_len, esp_ok) ==
    LET total == SizeToU8(SizeInc(payload_len))
    IN  sendPacketToTarget(g, has_pre, device_id, MsgCommand,
                           [i \in 1..total |-> 0], total, esp_ok)

(***************************************************************************)
(* The send functions and the wire format together: the application sends,  *)
(* the radio hands a datagram with the bytes just sent, intact or damaged,  *)
(* to espnowRecvCb, and recvTask decodes it. As everywhere, recvTask has     *)
(* taken a datagram before the next call or datagram arrives.               *)
(***************************************************************************)
\* n bytes of payload
Payload(n) == [i \in 1..n |-> (i * 7) % 256]

\* SendCommand calls: no payload (as every caller in the firmware), a short
\* payload, the longest payload that fits behind the command byte, one byte
\* more, a null pointer with a length, and a length of SIZE_MAX
CommandCalls ==
    {[device_id |-> 1, command_id |-> 4, payload |-> NullBuffer, len |-> SizeOf(0)],
     [device_id |-> 1, command_id |-> 2, payload |-> Buffer(Payload(3)),
      len |-> SizeOf(3)],
     [device_id |-> 255, command_id |-> 1,
      payload |-> Buffer(Payload(MAX_PAYLOAD_SIZE_ - 1)),
      len |-> SizeOf(MAX_PAYLOAD_SIZE_ - 1)],
     [device_id |-> 1, command_id |-> 1,
      payload |-> Buffer(Payload(MAX_PAYLOAD_SIZE_)),
      len |-> SizeOf(MAX_PAYLOAD_SIZE_)],
     [device_id |-> 1, command_id |-> 1, payload |-> NullBuffer,
      len |-> SizeOf(MAX_PAYLOAD_SIZE_ + 100)],
     [device_id |-> 1, command_id |-> 1,
      payload |-> Buffer(Payload(MAX_PAYLOAD_SIZE_)), len |-> SIZE_MAX]}

\* SendConfigSet calls: two bytes, one byte more than the maximum, and a
\* length whose low byte is small
ConfigCalls ==
    {[device_id |-> 1, config_data |-> Buffer(<<30, 109>>), len |-> SizeOf(2)],
     [device_id |-> 1, config_data |-> Buffer(Payload(MAX_PAYLOAD_SIZE_ + 1)),
      len |-> SizeOf(MAX_PAYLOAD_SIZE_ + 1)],
     [device_id |-> 1, config_data |-> Buffer(Payload(MAX_PAYLOAD_SIZE_ + 1)),
      len |-> [hi |-> 1, lo |-> 2]]}

\* direct calls of sendPacketTo: payload_len is a uint8_t
PacketCalls ==
    {[device_id |-> 0, type |-> MsgConfigSet, payload |-> Payload(n), len |-> n] :
        n \in {0, MAX_PAYLOAD_SIZE_ + 1, 255}}

\* what the firmware does when SendCommand overran its buffer
OverrunOutcomes == {"continues", "reset"}

\* espnow::SendCommand called by the application
AppSendCommand ==
    /\ n_ops < MaxOps
    /\ RadioPaced
    /\ n_ops' = n_ops + 1
    /\ \E call \in CommandCalls, esp_ok \in BOOLEAN, outcome \in OverrunOutcomes :
         LET r == SendCommand(Cur, s_has_preconfigured, call.device_id,
                              call.command_id, call.payload, call.len, esp_ok)
             after == SendCommandAfterOverrun(Cur, s_has_preconfigured,
                                              call.device_id, call.len, esp_ok)
         IN  IF r.overrun /\ outcome = "reset"
             THEN /\ Reboot(TRUE)
                  /\ Done("SendCommand", FALSE, <<call, "reset">>)
             ELSE /\ Commit(IF r.overrun THEN after.g ELSE r.g)
                  /\ Done("SendCommand", IF r.overrun THEN after.ok ELSE r.ok,
                          <<call, "returned">>)
                  /\ UNCHANGED <<s_has_preconfigured, s_raw_recv_queue_, tick,
                                 rx_pc, rx_msg, hist>>

\* espnow::SendConfigSet called by the application
AppSendConfigSet ==
    /\ n_ops < MaxOps
    /\ RadioPaced
    /\ n_ops' = n_ops + 1
    /\ \E call \in ConfigCalls, esp_ok \in BOOLEAN :
         LET r == SendConfigSet(Cur, s_has_preconfigured, call.device_id,
                                call.config_data, call.len, esp_ok)
         IN  Commit(r.g) /\ Done("SendConfigSet", r.ok, <<call, "returned">>)
    /\ UNCHANGED <<s_has_preconfigured, s_raw_recv_queue_, tick, rx_pc, rx_msg,
                   hist>>

\* espnow::SendConfigRequest and espnow::SendDeviceDiscovery
AppSendRequest ==
    /\ n_ops < MaxOps
    /\ RadioPaced
    /\ n_ops' = n_ops + 1
    /\ \E esp_ok \in BOOLEAN, discovery \in BOOLEAN :
         LET r == IF discovery THEN SendDeviceDiscovery(Cur, esp_ok)
                  ELSE SendConfigRequest(Cur, s_has_preconfigured, 1, esp_ok)
         IN  /\ Commit(r.g)
             /\ Done(IF discovery THEN "SendDeviceDiscovery" ELSE "SendConfigRequest",
                     r.ok, <<discovery, "returned">>)
    /\ UNCHANGED <<s_has_preconfigured, s_raw_recv_queue_, tick, rx_pc, rx_msg,
                   hist>>

\* sendPacketTo applied by itself
CallSendPacketTo ==
    /\ n_ops < MaxOps
    /\ RadioPaced
    /\ n_ops' = n_ops + 1
    /\ \E call \in PacketCalls, esp_ok \in BOOLEAN :
         LET r == sendPacketTo(Cur, TEST_UNIT_MAC_, call.device_id, call.type,
                               call.payload, call.len, esp_ok)
         IN  Commit(r.g) /\ Done("sendPacketTo", r.ok, <<call, "returned">>)
    /\ UNCHANGED <<s_has_preconfigured, s_raw_recv_queue_, tick, rx_pc, rx_msg,
                   hist>>

\* the message types whose payload is bytes to this layer
ByteTypes == {MsgDeviceDiscovery, MsgConfigRequest, MsgConfigSet, MsgCommand}

\* the bits of an n-byte datagram the radio may invert: those of the header,
\* of the first payload byte, of the last payload byte and of the crc
FlipBits(n) ==
    {k \in 0..(8 * n - 1) :
        \/ k \div 8 + 1 <= HEADER_SIZE + 1
        \/ k \div 8 + 1 >= n - CRC_SIZE}

\* what can differ from the n bytes sent: nothing, one bit inverted, the
\* datagram cut short, or a datagram of a sender with another sync byte or
\* another protocol version
Corruptions(n) ==
    {<<"none", 0>>}
        \cup {<<"flip", k>> : k \in FlipBits(n)}
        \cup {<<"cut", m>> : m \in {0, HEADER_SIZE + CRC_SIZE - 1, n - 1}}
        \cup {<<"sync", 85>>, <<"version", PROTOCOL_VERSION_ + 1>>}

Corrupt(bytes, c) ==
    CASE c[1] = "flip" ->
           [bytes EXCEPT ![c[2] \div 8 + 1] = FlipBitOf(@, c[2] % 8)]
      [] c[1] = "cut" -> SubSeq(bytes, 1, c[2])
      [] c[1] = "sync" -> ForeignBytes(bytes, c[2], PROTOCOL_VERSION_)
      [] c[1] = "version" -> ForeignBytes(bytes, SYNC_BYTE_, c[2])
      [] OTHER -> bytes

\* who the datagram comes from: the factory peer or a stranger
EchoSources == {TEST_UNIT_MAC_, PEER_A}

\* espnowRecvCb called with the bytes of the datagram just sent, intact from
\* either source or damaged from the factory peer; sent and corrupt record
\* where the bytes came from
espnowRecvCbBytes ==
    /\ n_ops < MaxOps
    /\ n_ops' = n_ops + 1
    /\ RadioPaced
    /\ tx # <<>>
    /\ tx[1].type \in ByteTypes
    /\ \E bytes \in {WireBytes(tx[1])} :
          \E src \in EchoSources, c \in Corruptions(Len(bytes)) :
             /\ src = TEST_UNIT_MAC_ \/ c[1] = "none"
             /\ \E data \in {Corrupt(bytes, c)} :
                    s_raw_recv_queue_' =
                       IF Len(data) < HEADER_SIZE + CRC_SIZE
                          \/ Len(data) > HEADER_SIZE + MAX_PAYLOAD_SIZE_ + CRC_SIZE
                       THEN s_raw_recv_queue_
                       ELSE QueueSend(s_raw_recv_queue_,
                                      [src |-> src, data |-> data, corrupt |-> c,
                                       sent |-> tx[1]],
                                      RAW_QUEUE_LEN)
    /\ Commit(Cur)
    /\ Done("espnowRecvCb", TRUE, "none")
    /\ UNCHANGED <<s_has_preconfigured, tick, rx_pc, rx_msg, hist>>

\* recvTask: the bytes of one datagram taken from the raw queue and handled
RecvTaskBytes ==
    /\ s_raw_recv_queue_ # <<>>
    /\ \E msg \in {ParseDatagram(Head(s_raw_recv_queue_).src,
                                  Head(s_raw_recv_queue_).data)} :
         LET g == handlePacket(Cur, s_has_preconfigured, msg, TRUE, "ok")
         IN  /\ Commit(g)
             /\ Done("handlePacket",
                     IF DecodeError(msg) = "ok" THEN msg ELSE NoMsg, g.note)
             /\ hist' = HistRx(g, msg)
    /\ s_raw_recv_queue_' = Tail(s_raw_recv_queue_)
    /\ UNCHANGED <<s_has_preconfigured, tick, rx_pc, rx_msg, n_ops>>

\* StartPairing called when recvTask has caught up with the radio
PacedStartPairing == RadioPaced /\ AppStartPairing

NextCodec ==
    \/ PacedStartPairing
    \/ AppSendCommand
    \/ AppSendConfigSet
    \/ AppSendRequest
    \/ CallSendPacketTo
    \/ espnowRecvCbBytes
    \/ RecvTaskBytes

SpecCodec == InitFrom(InitNvs, {TickOf(0, 0)}) /\ [][NextCodec]_vars

(***************************************************************************)
(* The receive path under load: the radio delivers datagrams at any rate,   *)
(* recvTask and the application take them off their queues when they run.   *)
(***************************************************************************)
\* datagrams of the factory peer: StatusUpdates with sequence id 1
BurstStatus == Dgram(TEST_UNIT_MAC_, MsgStatusUpdate, 0, <<>>)

\* datagrams the peer sends one at a time, the next one once recvTask has
\* taken the previous one: a StatusUpdate with sequence id 2 and one whose
\* CRC does not match
BurstProbes ==
    {[BurstStatus EXCEPT !.id = 2], [BurstStatus EXCEPT !.crc_ok = FALSE]}

\* one byte shorter than the smallest packet, one byte longer than the largest
BurstBadLengths ==
    {[BurstStatus EXCEPT !.nbytes = HEADER_SIZE + CRC_SIZE - 1],
     [BurstStatus EXCEPT !.nbytes = HEADER_SIZE + MAX_PAYLOAD_SIZE_ + CRC_SIZE + 1]}

BurstDatagrams == {BurstStatus} \cup BurstProbes \cup BurstBadLengths

ProbeQueued ==
    \E k \in 1..Len(s_raw_recv_queue_) : s_raw_recv_queue_[k] \in BurstProbes

\* a callback that verifies the CRC itself and queues only datagrams that pass
espnowRecvCbChecksCrc ==
    /\ \E msg \in BurstDatagrams :
         /\ msg \in BurstProbes => ~ProbeQueued
         /\ IF DecodeError(msg) # "ok"
            THEN /\ UNCHANGED s_raw_recv_queue_
                 /\ Done("espnowRecvCb", msg, "bad_length")
            ELSE /\ s_raw_recv_queue_' =
                       QueueSend(s_raw_recv_queue_, msg, RAW_QUEUE_LEN)
                 /\ Done("espnowRecvCb", msg,
                         IF Len(s_raw_recv_queue_) < RAW_QUEUE_LEN
                         THEN "queued" ELSE "queue_full")
    /\ Commit(Cur)
    /\ UNCHANGED <<s_has_preconfigured, tick, rx_pc, rx_msg, hist, n_ops>>

\* espnowRecvCb whenever the radio has a datagram, whatever recvTask is doing
espnowRecvCbBurst ==
    /\ \E msg \in BurstDatagrams :
         /\ msg \in BurstProbes => ~ProbeQueued
         /\ IF msg.nbytes < HEADER_SIZE + CRC_SIZE
               \/ msg.nbytes > HEADER_SIZE + MAX_PAYLOAD_SIZE_ + CRC_SIZE
            THEN /\ UNCHANGED s_raw_recv_queue_
                 /\ Done("espnowRecvCb", msg, "bad_length")
            ELSE /\ s_raw_recv_queue_' =
                       QueueSend(s_raw_recv_queue_, msg, RAW_QUEUE_LEN)
                 /\ Done("espnowRecvCb", msg,
                         IF Len(s_raw_recv_queue_) < RAW_QUEUE_LEN
                         THEN "queued" ELSE "queue_full")
    /\ Commit(Cur)
    /\ UNCHANGED <<s_has_preconfigured, tick, rx_pc, rx_msg, hist, n_ops>>

NextBurst ==
    \/ espnowRecvCbBurst
    \/ RecvTask
    \/ AppReceiveEvent

SpecBurst == InitFrom(InitNvs, {TickOf(0, 0)}) /\ [][NextBurst]_vars

\* recvTask is a task of its own (xTaskCreate in Init): when a datagram waits
\* in the raw queue the scheduler runs it eventually
SpecBurstFair == SpecBurst /\ WF_vars(RecvTask)

(***************************************************************************)
(* The sequence counter with two senders: the application task sends while  *)
(* recvTask is inside sendPacketTo for the PairingConfirm.  hdr->id =        *)
(* s_next_msg_id_++ on the plain uint8_t is a load and a store; the other    *)
(* task can run between them.                                               *)
(***************************************************************************)
SeqDatagrams ==
    {Response(PEER_A, PEER_A, DevFatigueTester, HmacSha256(PAIRING_SECRET, c)) :
        c \in Challenges}

SeqRecvCb == RecvCbFrom(SeqDatagrams)

\* n calls of espnow::SendDeviceDiscovery in a row
RECURSIVE SendDiscoveries(_, _, _)
SendDiscoveries(g, n, esp_ok) ==
    IF n = 0 THEN g
    ELSE IF n = 1 THEN SendDeviceDiscovery(g, esp_ok).g
    ELSE LET left == SendDiscoveries(g, n \div 2, esp_ok)
         IN  IF left.msg_id >= 0
             THEN SendDiscoveries(left, n - (n \div 2), esp_ok)
             ELSE g

\* how many discoveries the application sends back to back: one, or as many
\* as bring the counter from 1 to 255
DiscoveryBursts == {1, 254}

\* the application task calls espnow::SendDeviceDiscovery, once or in a loop
AppSendDeviceDiscovery ==
    /\ n_ops < MaxOps
    /\ \E n \in DiscoveryBursts, esp_ok \in BOOLEAN :
         \E g \in {SendDiscoveries(Cur, n, esp_ok)} :
            /\ Commit(g)
            /\ Done("SendDeviceDiscovery", Len(g.tx) = n,
                    IF n = 1 THEN "once" ELSE "loop")
    /\ n_ops' = n_ops + 1
    /\ UNCHANGED <<s_has_preconfigured, s_raw_recv_queue_, tick,
                   rx_pc, rx_msg, hist>>

\* recvTask: the checks of the response, then sendPacketTo up to the load of
\* s_next_msg_id_ into the header of the PairingConfirm
RxLoadId ==
    /\ rx_pc = "verify"
    /\ LET v == HPR_Verify(Cur, rx_msg)
       IN  /\ Commit(v.g) /\ Done("handlePairingResponse", v.go, v.g.note)
           /\ hist' = HistRx(v.g, rx_msg)
           /\ rx_pc' = IF v.go THEN "send" ELSE "wait"
           /\ rx_msg' = IF v.go THEN [pkt |-> rx_msg, id |-> s_next_msg_id_]
                        ELSE NoMsg
    /\ UNCHANGED <<s_has_preconfigured, s_raw_recv_queue_, tick, n_ops>>

\* recvTask: the store of the incremented value and the rest of sendPacketTo
\* with the header id that was loaded
RxSendConfirm ==
    /\ rx_pc = "send"
    /\ \E esp_ok \in BOOLEAN :
         LET c == HPR_Confirm([Cur EXCEPT !.msg_id = rx_msg.id], rx_msg.pkt, esp_ok)
         IN  /\ Commit(c.g) /\ Done("handlePairingResponse", c.go, c.g.note)
             /\ hist' = HistRx(c.g, rx_msg.pkt)
             /\ rx_pc' = IF c.go THEN "add" ELSE "wait"
             /\ rx_msg' = IF c.go THEN rx_msg.pkt ELSE NoMsg
    /\ UNCHANGED <<s_has_preconfigured, s_raw_recv_queue_, tick, n_ops>>

NextSeq ==
    \/ AppStartPairing
    \/ AppSendDeviceDiscovery
    \/ SeqRecvCb
    \/ RxBegin
    \/ RxLoadId
    \/ RxSendConfirm
    \/ RxAdd

SpecSeq == InitFrom(InitNvs, {TickOf(0, 0)}) /\ [][NextSeq]_vars

(***************************************************************************)
(* The peer table with two writers: the application task calls              *)
(* AddApprovedPeer and RemoveApprovedPeer while recvTask is inside          *)
(* PeerStore::AddPeer for the responder; nothing keeps one task from        *)
(* running between the loops of the other.                                  *)
(***************************************************************************)
\* handlePairingResponse after AddPeer returned added
HPR_Finish(g, pkt, added) ==
    IF added
    THEN [g EXCEPT !.state = "Complete",
                   !.events = QueueSend(@, PairingCompleteEvent(pkt), ProtoQueueLen),
                   !.note = "complete"]
    ELSE [g EXCEPT !.state = "Failed", !.note = "add_failed"]

\* recvTask in AddPeer: the zero test and the first loop; an entry found is
\* updated and saved, otherwise the second loop is next
RxAddSearch ==
    /\ rx_pc = "add"
    /\ LET mac == rx_msg.payload.responder_mac
           found == SlotsOf(s_security_, mac)
       IN  IF IsZeroMac(mac) \/ found # {}
           THEN /\ \E save \in SaveOutcomes :
                     LET g == HPR_Add(Cur, rx_msg, save)
                     IN  /\ Commit(g)
                         /\ Done("handlePairingResponse", TRUE, g.note)
                         /\ hist' = HistRx(g, rx_msg)
                /\ rx_pc' = "wait"
                /\ rx_msg' = NoMsg
           ELSE /\ Commit(Cur)
                /\ Done("handlePairingResponse", TRUE, "not_found")
                /\ rx_pc' = "scan"
                /\ UNCHANGED <<rx_msg, hist>>
    /\ UNCHANGED <<s_has_preconfigured, s_raw_recv_queue_, tick, n_ops>>

\* recvTask in AddPeer: the second loop up to the test of peer.valid that
\* finds a free slot
RxAddClaim ==
    /\ rx_pc = "scan"
    /\ IF FreeSlots(s_security_) # {}
       THEN /\ Commit(Cur)
            /\ Done("handlePairingResponse", TRUE, "slot_free")
            /\ rx_pc' = "write"
            /\ rx_msg' = [pkt |-> rx_msg, slot |-> FirstSlot(FreeSlots(s_security_))]
            /\ hist' = hist
       ELSE LET g == HPR_Finish(Cur, rx_msg, FALSE)
            IN  /\ Commit(g)
                /\ Done("handlePairingResponse", TRUE, g.note)
                /\ hist' = HistRx(g, rx_msg)
                /\ rx_pc' = "wait"
                /\ rx_msg' = NoMsg
    /\ UNCHANGED <<s_has_preconfigured, s_raw_recv_queue_, tick, n_ops>>

\* recvTask in AddPeer: the slot is written and saved, AddPeer returns true
\* and handlePairingResponse ends the session
RxAddWrite ==
    /\ rx_pc = "write"
    /\ \E save \in SaveOutcomes :
         LET pkt == rx_msg.pkt
             s2 == [s_security_ EXCEPT ![rx_msg.slot] =
                      [mac |-> pkt.payload.responder_mac,
                       device_type |-> DevFatigueTester,
                       name |-> Strncpy(pkt.payload.device_name),
                       paired_timestamp |-> 0, valid |-> TRUE]]
             g == HPR_Finish([Cur EXCEPT !.sec = s2, !.nvs = Save(s2, nvs, save)],
                             pkt, TRUE)
         IN  /\ Commit(g)
             /\ Done("handlePairingResponse", TRUE, g.note)
             /\ hist' = HistRx(g, pkt)
    /\ rx_pc' = "wait"
    /\ rx_msg' = NoMsg
    /\ UNCHANGED <<s_has_preconfigured, s_raw_recv_queue_, tick, n_ops>>

NextRace ==
    \/ AppStartPairing
    \/ AppAddApprovedPeer
    \/ AppRemovePeer
    \/ SeqRecvCb
    \/ RxBegin
    \/ RxVerify
    \/ RxAddSearch
    \/ RxAddClaim
    \/ RxAddWrite

SpecRace == InitFrom(InitNvs, {TickOf(0, 0)}) /\ [][NextRace]_vars

(***************************************************************************)
(* The pairing timeout around the wrap of the 32-bit tick counter: sessions *)
(* started at boot, with the deadline on the wrap, one tick before it and   *)
(* on the last tick before the wrap, and polled as time passes.             *)
(***************************************************************************)
WrapTicks ==
    LET timeout == pdMS_TO_TICKS(PAIRING_RESPONSE_TIMEOUT_MS)
    IN  {TickOf(0, 0),
         TickOf(2^16 - 1, 2^16 - timeout),
         TickOf(2^16 - 1, 2^16 - timeout - 1),
         TickOf(2^16 - 1, 2^16 - 1)}

NextWrap ==
    \/ AppStartPairing
    \/ AppCancelPairing
    \/ AppGetPairingState
    \/ TickAdvance

SpecWrap == InitFrom(InitNvs, WrapTicks) /\ [][NextWrap]_vars

(***************************************************************************)
(* Properties                                                               *)
(***************************************************************************)
\* recvTask takes a datagram off the raw queue and handles it in this step
RxStep ==
    /\ s_raw_recv_queue_ # <<>>
    /\ s_raw_recv_queue_' = Tail(s_raw_recv_queue_)

\* the datagram recvTask takes
RxMsg == Head(s_raw_recv_queue_)

\* the step changes nothing of the protocol state and sends nothing
ProtocolUntouched ==
    /\ UNCHANGED <<s_pairing_state_, s_my_challenge_, s_pending_responder_mac_,
                   s_pairing_timeout_tick_, s_security_, nvs,
                   s_proto_event_queue_, s_next_msg_id_>>
    /\ tx' = <<>>

\* the approval rule: the factory peer when provisioned, or a valid table entry
ApprovedSource(mac) ==
    /\ mac # ZERO_MAC
    /\ \/ (s_has_preconfigured /\ mac = TEST_UNIT_MAC_)
       \/ \E i \in Slots : s_security_[i].valid /\ s_security_[i].mac = mac

PairingTypes == {MsgPairingResponse, MsgPairingReject}

\* the response carries the HMAC of the session's challenge under the secret
AnswersChallenge(msg, challenge) ==
    msg.payload.hmac_response = HmacSha256(PAIRING_SECRET, challenge)

\* C1: security gate. When recvTask handles a well-formed message that is
\* neither PairingResponse nor PairingReject, an event is enqueued only if the
\* source MAC is approved at that moment, and the event carries that source;
\* from an unapproved source nothing is enqueued, no protocol state changes
\* and nothing is sent.
C1_SecurityGate ==
    [][RxStep => LET msg == RxMsg IN
          (DecodeError(msg) = "ok" /\ msg.type \notin PairingTypes)
          => IF ApprovedSource(msg.src)
             THEN s_proto_event_queue_' \in
                    {s_proto_event_queue_,
                     Append(s_proto_event_queue_, ProtoEventOf(msg))}
             ELSE ProtocolUntouched]_vars

\* a well-formed StatusUpdate from a source that is not approved was dropped
C1_Witness ==
    /\ last.op = "handlePacket"
    /\ last.note = "gate_rejected"
    /\ last.ret.type = MsgStatusUpdate
    /\ last.ret.crc_ok
    /\ ~ApprovedSource(last.ret.src)
    /\ s_proto_event_queue_ = <<>>

\* C2: pairing authenticity. Handling a received message changes the peer
\* table or moves the session to Complete only if the message is a
\* PairingResponse, the session was WaitingForResponse, the response's
\* device_type is FatigueTester and its HMAC field is the HMAC of the
\* session's current challenge under the shared secret.
C2_PairingAuthenticity ==
    [][RxStep => LET msg == RxMsg IN
          (\/ s_security_' # s_security_
           \/ nvs' # nvs
           \/ (s_pairing_state_ # "Complete" /\ s_pairing_state_' = "Complete"))
          => /\ DecodeError(msg) = "ok"
             /\ msg.type = MsgPairingResponse
             /\ s_pairing_state_ = "WaitingForResponse"
             /\ msg.payload.device_type = DevFatigueTester
             /\ AnswersChallenge(msg, s_my_challenge_)]_vars

\* an authentic response was accepted: the responder is in the table
C2_Witness ==
    /\ last.op = "handlePacket"
    /\ last.note = "complete"
    /\ s_pairing_state_ = "Complete"
    /\ AnswersChallenge(last.ret, s_my_challenge_)
    /\ \E i \in Slots : /\ s_security_[i].valid
                        /\ s_security_[i].mac = last.ret.payload.responder_mac

\* C3: HMAC-failure path. A PairingResponse of device type FatigueTester
\* handled in WaitingForResponse whose HMAC is not that of the session
\* challenge moves the session to Failed, leaves the peer table and the
\* persisted blob unchanged, sends no PairingConfirm and enqueues no event.
C3_HmacFailure ==
    [][RxStep => LET msg == RxMsg IN
          (/\ DecodeError(msg) = "ok"
           /\ msg.type = MsgPairingResponse
           /\ msg.len >= PairingResponsePayloadSize
           /\ msg.payload.device_type = DevFatigueTester
           /\ s_pairing_state_ = "WaitingForResponse"
           /\ ~AnswersChallenge(msg, s_my_challenge_))
          => /\ s_pairing_state_' = "Failed"
             /\ UNCHANGED <<s_security_, nvs, s_proto_event_queue_>>
             /\ \A k \in 1..Len(tx') : tx'[k].type # MsgPairingConfirm]_vars

\* a response signed with another secret failed the session
C3_Witness ==
    /\ last.op = "handlePacket"
    /\ last.note = "hmac_failed"
    /\ last.ret.payload.hmac_response = HmacSha256(WRONG_SECRET, "c1")
    /\ s_pairing_state_ = "Failed"
    /\ \A i \in Slots : ~s_security_[i].valid

\* AddPeer has a slot for mac: its own entry, or a free one
HasSlotFor(mac) ==
    /\ mac # ZERO_MAC
    /\ \E i \in Slots : ~s_security_[i].valid \/ s_security_[i].mac = mac

\* the PairingConfirm for the responder went out in this step
ConfirmSent(msg) ==
    \E k \in 1..Len(tx') : /\ tx'[k].type = MsgPairingConfirm
                           /\ tx'[k].dst = msg.payload.responder_mac

\* C4: pairing success. Whenever a PairingResponse handled in
\* WaitingForResponse passes the type and HMAC checks and AddPeer succeeds,
\* the session becomes Complete and one notification event carrying the new
\* peer's MAC address and device name is added to the application's queue.
C4_SuccessNotifies ==
    [][RxStep => LET msg == RxMsg IN
          (/\ DecodeError(msg) = "ok"
           /\ msg.type = MsgPairingResponse
           /\ msg.len >= PairingResponsePayloadSize
           /\ msg.payload.device_type = DevFatigueTester
           /\ s_pairing_state_ = "WaitingForResponse"
           /\ AnswersChallenge(msg, s_my_challenge_)
           /\ ConfirmSent(msg)
           /\ HasSlotFor(msg.payload.responder_mac))
          => /\ s_pairing_state_' = "Complete"
             /\ Len(s_proto_event_queue_') = Len(s_proto_event_queue_) + 1
             /\ LET e == s_proto_event_queue_'[Len(s_proto_event_queue_')]
                IN  /\ e.src_mac = msg.payload.responder_mac
                    /\ e.payload = msg.payload.device_name]_vars

\* the pairing completed and the peer was stored while the application's
\* queue was full of another event: no notification was enqueued
C4_Witness ==
    /\ last.op = "handlePacket"
    /\ last.note = "complete"
    /\ s_pairing_state_ = "Complete"
    /\ Len(s_proto_event_queue_) = ProtoQueueLen
    /\ \A k \in 1..Len(s_proto_event_queue_) :
          s_proto_event_queue_[k].type # MsgPairingResponse

\* C5: pairing mutual exclusion. StartPairing called while the session is
\* WaitingForResponse returns false, sends nothing, and leaves the session's
\* challenge, deadline and state unchanged.
C5_MutualExclusion ==
    [][(last'.op = "StartPairing" /\ s_pairing_state_ = "WaitingForResponse")
       => /\ last'.ret = FALSE
          /\ tx' = <<>>
          /\ UNCHANGED <<s_my_challenge_, s_pairing_timeout_tick_,
                         s_pairing_state_>>]_vars

\* a second StartPairing was refused while the first session waits
C5_Witness ==
    /\ last = [op |-> "StartPairing", ret |-> FALSE, note |-> "busy"]
    /\ s_pairing_state_ = "WaitingForResponse"
    /\ s_my_challenge_ \in Challenges

\* C6: StartPairing returns true only from Idle; it then stores a generated
\* challenge, broadcasts exactly one PairingRequest carrying that challenge
\* with device type RemoteController and expected peer type FatigueTester,
\* sets the state to WaitingForResponse and the deadline to now + 10 s; from
\* WaitingForResponse, Complete and Failed it returns false.
C6_StartFromIdle ==
    [][last'.op = "StartPairing"
       => /\ last'.ret = TRUE
             => /\ s_pairing_state_ = "Idle"
                /\ s_my_challenge_' \in Challenges
                /\ Len(tx') = 1
                /\ tx'[1].dst = BROADCAST_MAC
                /\ tx'[1].type = MsgPairingRequest
                /\ tx'[1].payload.challenge = s_my_challenge_'
                /\ tx'[1].payload.device_type = DevRemoteController
                /\ tx'[1].payload.expected_peer_type = DevFatigueTester
                /\ s_pairing_state_' = "WaitingForResponse"
                /\ s_pairing_timeout_tick_' = TickAdd(tick, 10 * TickRateHz)
          /\ s_pairing_state_ \in {"WaitingForResponse", "Complete", "Failed"}
             => last'.ret = FALSE]_vars

\* a session was started from Idle and its request is on the air
C6_Witness ==
    /\ last = [op |-> "StartPairing", ret |-> TRUE, note |-> "started"]
    /\ s_pairing_state_ = "WaitingForResponse"
    /\ Len(tx) = 1
    /\ tx[1].type = MsgPairingRequest
    /\ tx[1].payload.challenge = s_my_challenge_
    /\ s_pairing_timeout_tick_ = TickAdd(tick, 10 * TickRateHz)

\* msg is a PairingResponse carrying the HMAC of the challenge of a cancelled
\* session, and that challenge is not the one of a session now waiting
AnswersCancelled(msg) ==
    /\ DecodeError(msg) = "ok"
    /\ msg.type = MsgPairingResponse
    /\ \E c \in hist.cancelled :
          /\ AnswersChallenge(msg, c)
          /\ ~(s_pairing_state_ = "WaitingForResponse" /\ c = s_my_challenge_)

NoConfirmSent == \A k \in 1..Len(tx') : tx'[k].type # MsgPairingConfirm

\* C7: CancelPairing called in any state leaves the session Idle, and a
\* PairingResponse answering the cancelled session's challenge that is
\* handled afterwards is ignored: no pairing-state change, no peer-table
\* change, no PairingConfirm and no event.
C7_StaleResponseIgnored ==
    [][/\ last'.op = "CancelPairing" => s_pairing_state_' = "Idle"
       /\ RxStep => LET msg == RxMsg IN
             AnswersCancelled(msg)
             => /\ UNCHANGED <<s_pairing_state_, s_security_, nvs,
                               s_proto_event_queue_>>
                /\ NoConfirmSent]_vars

\* C7 as the program has it: CancelPairing leaves the session Idle; a
\* response to a cancelled challenge is ignored as long as no session is
\* WaitingForResponse; handled while a later session waits it never adds a
\* peer, sends a confirm, enqueues an event or completes the pairing, but it
\* can end that session in Failed.
C7_StaleResponseIgnoredWhileNotWaiting ==
    [][/\ last'.op = "CancelPairing" => s_pairing_state_' = "Idle"
       /\ RxStep => LET msg == RxMsg IN
             AnswersCancelled(msg)
             => /\ UNCHANGED <<s_security_, nvs, s_proto_event_queue_>>
                /\ NoConfirmSent
                /\ IF s_pairing_state_ = "WaitingForResponse"
                   THEN s_pairing_state_' \in {"WaitingForResponse", "Failed"}
                   ELSE ProtocolUntouched]_vars

\* after a cancel, a full response answering the cancelled challenge was
\* handled in Idle and dropped
C7_Witness ==
    /\ last.op = "handlePacket"
    /\ last.note = "unexpected"
    /\ last.ret.type = MsgPairingResponse
    /\ last.ret.len = PairingResponsePayloadSize
    /\ last.ret.payload.device_type = DevFatigueTester
    /\ s_my_challenge_ \in hist.cancelled
    /\ AnswersChallenge(last.ret, s_my_challenge_)
    /\ s_pairing_state_ = "Idle"
    /\ \A i \in Slots : ~s_security_[i].valid

\* 32-bit difference a - b of two tick values
TickSub(a, b) ==
    LET borrow == IF a.lo < b.lo THEN 1 ELSE 0
    IN  [lo |-> (a.lo - b.lo + 2^16) % (2^16),
         hi |-> (a.hi - b.hi - borrow + 2^16) % (2^16)]

\* ticks since the StartPairing that opened the session
Elapsed == TickSub(tick, hist.started)

ResponseTimeout == TickOf(0, 10 * TickRateHz)

\* C8: polled timeout. While WaitingForResponse, GetPairingState called more
\* than 10 s after the session started moves it to Failed and returns Failed;
\* called less than 10 s after the start it returns WaitingForResponse and
\* changes nothing; and the passage of time alone changes no pairing state.
C8_PolledTimeout ==
    [][/\ (last'.op = "GetPairingState" /\ s_pairing_state_ = "WaitingForResponse")
          => /\ TickGT(Elapsed, ResponseTimeout)
                => (s_pairing_state_' = "Failed" /\ last'.ret = "Failed")
             /\ TickGT(ResponseTimeout, Elapsed)
                => (last'.ret = "WaitingForResponse" /\ ProtocolUntouched)
       /\ last'.op = "tick" => UNCHANGED s_pairing_state_]_vars

\* GetPairingState reported a timeout in the very tick the session started
C8_Witness ==
    /\ last = [op |-> "GetPairingState", ret |-> "Failed", note |-> "timed_out"]
    /\ s_pairing_state_ = "Failed"
    /\ tick = hist.started

\* C9: under every interleaving of the application's calls with recvTask the
\* pairing state changes only along Idle -> WaitingForResponse,
\* WaitingForResponse -> Complete, WaitingForResponse -> Failed, and
\* any state -> Idle by CancelPairing.
C9_LifecycleEdges ==
    [][s_pairing_state_' # s_pairing_state_
       => \/ /\ s_pairing_state_ = "Idle"
             /\ s_pairing_state_' = "WaitingForResponse"
          \/ /\ s_pairing_state_ = "WaitingForResponse"
             /\ s_pairing_state_' \in {"Complete", "Failed"}
          \/ /\ s_pairing_state_' = "Idle"
             /\ last'.op = "CancelPairing"]_vars

\* GetPairingState has reported the timeout while recvTask, past the checks
\* of a valid response, is about to store the peer and set Complete
C9_Witness ==
    /\ rx_pc = "add"
    /\ last = [op |-> "GetPairingState", ret |-> "Failed", note |-> "timed_out"]
    /\ s_pairing_state_ = "Failed"

\* C10: a PairingReject handled while WaitingForResponse, whatever its reason,
\* sender and length, leaves the pairing state, challenge, deadline, peer
\* table, persisted blob and event queue unchanged and sends nothing; and a
\* valid PairingResponse handled later in the same waiting session, its
\* PairingConfirm sent and a slot available, still completes the pairing and
\* stores the responder.
C10_RejectHarmless ==
    [][RxStep => LET msg == RxMsg IN
          /\ (/\ DecodeError(msg) = "ok"
              /\ msg.type = MsgPairingReject
              /\ s_pairing_state_ = "WaitingForResponse")
             => ProtocolUntouched
          /\ (/\ hist.rejected
              /\ DecodeError(msg) = "ok"
              /\ msg.type = MsgPairingResponse
              /\ msg.len >= PairingResponsePayloadSize
              /\ msg.payload.device_type = DevFatigueTester
              /\ s_pairing_state_ = "WaitingForResponse"
              /\ AnswersChallenge(msg, s_my_challenge_)
              /\ ConfirmSent(msg)
              /\ HasSlotFor(msg.payload.responder_mac))
             => /\ s_pairing_state_' = "Complete"
                /\ \E i \in Slots :
                      /\ s_security_'[i].valid
                      /\ s_security_'[i].mac = msg.payload.responder_mac]_vars

\* the session saw a reject and was completed by a later valid response
C10_Witness ==
    /\ hist.rejected
    /\ last.op = "handlePacket"
    /\ last.note = "complete"
    /\ s_pairing_state_ = "Complete"
    /\ \E i \in Slots : s_security_[i].valid /\ s_security_[i].mac = PEER_A

\* C11: a complete PairingResponse whose device_type is not the expected peer
\* type, handled while WaitingForResponse, is ignored whatever HMAC it
\* carries: pairing state, challenge, deadline, peer table, persisted blob and
\* event queue stay as they were and nothing is sent; and a valid
\* PairingResponse handled later in the same waiting session, its
\* PairingConfirm sent and a slot available, still completes the pairing.
C11_WrongTypeIgnored ==
    [][RxStep => LET msg == RxMsg IN
          /\ (/\ DecodeError(msg) = "ok"
              /\ msg.type = MsgPairingResponse
              /\ msg.len >= PairingResponsePayloadSize
              /\ msg.payload.device_type # DevFatigueTester
              /\ s_pairing_state_ = "WaitingForResponse")
             => ProtocolUntouched
          /\ (/\ hist.ignored
              /\ DecodeError(msg) = "ok"
              /\ msg.type = MsgPairingResponse
              /\ msg.len >= PairingResponsePayloadSize
              /\ msg.payload.device_type = DevFatigueTester
              /\ s_pairing_state_ = "WaitingForResponse"
              /\ AnswersChallenge(msg, s_my_challenge_)
              /\ ConfirmSent(msg)
              /\ HasSlotFor(msg.payload.responder_mac))
             => /\ s_pairing_state_' = "Complete"
                /\ \E i \in Slots :
                      /\ s_security_'[i].valid
                      /\ s_security_'[i].mac = msg.payload.responder_mac]_vars

\* the session ignored a response of the wrong device type and was completed
\* by a later valid response
C11_Witness ==
    /\ hist.ignored
    /\ last.op = "handlePacket"
    /\ last.note = "complete"
    /\ s_pairing_state_ = "Complete"
    /\ \E i \in Slots : s_security_[i].valid /\ s_security_[i].mac = PEER_A

\* the ends of a waiting session the specification names: CancelPairing, the
\* deadline seen by GetPairingState, and a complete response of the expected
\* type that fails the HMAC check, or passes it and is confirmed and stored,
\* or passes it and is confirmed while the table has no slot for it
NamedSessionEnd ==
    \/ last'.op = "CancelPairing" /\ s_pairing_state_' = "Idle"
    \/ /\ last'.op = "GetPairingState"
       /\ TickGT(tick, s_pairing_timeout_tick_)
       /\ s_pairing_state_' = "Failed"
    \/ /\ RxStep
       /\ LET msg == RxMsg IN
            /\ DecodeError(msg) = "ok"
            /\ msg.type = MsgPairingResponse
            /\ msg.len >= PairingResponsePayloadSize
            /\ msg.payload.device_type = DevFatigueTester
            /\ \/ ~AnswersChallenge(msg, s_my_challenge_)
                  /\ s_pairing_state_' = "Failed"
               \/ /\ AnswersChallenge(msg, s_my_challenge_)
                  /\ ConfirmSent(msg)
                  /\ IF HasSlotFor(msg.payload.responder_mac)
                     THEN s_pairing_state_' = "Complete"
                     ELSE s_pairing_state_' = "Failed"

\* the two ends the code has besides: a PairingResponse shorter than its
\* payload, and a verified response whose PairingConfirm esp_now_send refused
UnnamedSessionEnd ==
    /\ RxStep
    /\ s_pairing_state_' = "Failed"
    /\ LET msg == RxMsg IN
         /\ DecodeError(msg) = "ok"
         /\ msg.type = MsgPairingResponse
         /\ \/ msg.len < PairingResponsePayloadSize
            \/ /\ msg.len >= PairingResponsePayloadSize
               /\ msg.payload.device_type = DevFatigueTester
               /\ AnswersChallenge(msg, s_my_challenge_)
               /\ tx' = <<>>

\* C12: a session in WaitingForResponse leaves that state only by an accepted
\* response (to Complete, or to Failed when the peer table is full), an HMAC
\* failure (to Failed), the polled deadline (to Failed) or CancelPairing (to
\* Idle); no other datagram and no transport outcome changes the state.
C12_SessionEnds ==
    [][(s_pairing_state_ = "WaitingForResponse"
        /\ s_pairing_state_' # "WaitingForResponse")
       => NamedSessionEnd]_vars

\* C12 as the code has it: the session also ends in Failed on a
\* PairingResponse shorter than its payload and when the PairingConfirm of a
\* verified response cannot be sent; nothing else ends it.
C12_SessionEndsAlsoOnShortOrUnsent ==
    [][(s_pairing_state_ = "WaitingForResponse"
        /\ s_pairing_state_' # "WaitingForResponse")
       => (NamedSessionEnd \/ UnnamedSessionEnd)]_vars

\* a waiting session was failed by a truncated PairingResponse
C12_Witness ==
    /\ last.op = "handlePacket"
    /\ last.ret.type = MsgPairingResponse
    /\ last.ret.len < PairingResponsePayloadSize
    /\ last.note = "too_short"
    /\ s_pairing_state_ = "Failed"

\* C13: a PairingConfirm goes out only while recvTask handles a
\* PairingResponse whose HMAC answers the session's challenge; it is a single
\* datagram with success = 1, addressed to the responder's MAC and never to
\* the broadcast address, it carries the HMAC of the responder's challenge,
\* it is the first of its session, and the peer table and the persisted blob
\* are still untouched when it is sent.
C13_ConfirmDiscipline ==
    [][\A k \in 1..Len(tx') :
          tx'[k].type = MsgPairingConfirm
          => /\ rx_pc = "verify"
             /\ AnswersChallenge(rx_msg, s_my_challenge_)
             /\ Len(tx') = 1
             /\ tx'[k].dst = rx_msg.payload.responder_mac
             /\ tx'[k].dst # BROADCAST_MAC
             /\ tx'[k].payload.hmac_response =
                   HmacSha256(PAIRING_SECRET, rx_msg.payload.challenge)
             /\ tx'[k].payload.success = 1
             /\ hist.confirms = 0
             /\ UNCHANGED <<s_security_, nvs>>]_vars

\* a PairingConfirm was sent to the broadcast address
C13_Witness ==
    /\ last.op = "handlePairingResponse"
    /\ Len(tx) = 1
    /\ tx[1].type = MsgPairingConfirm
    /\ tx[1].dst = BROADCAST_MAC
    /\ hist.confirms = 1

\* the four message types of the pairing handshake
HandshakeTypes == PairingTypes \cup HandshakeOnlyTypes

\* C14: when recvTask handles a well-formed PairingRequest, PairingResponse,
\* PairingConfirm or PairingReject, the security gate is not applied to it,
\* whether or not its source is approved, and it is never put on the
\* application's queue as the ordinary event of a received message.
C14_HandshakeBypassesGate ==
    [][RxStep => LET msg == RxMsg IN
          (DecodeError(msg) = "ok" /\ msg.type \in HandshakeTypes)
          => /\ last'.note # "gate_rejected"
             /\ s_proto_event_queue_' #
                  Append(s_proto_event_queue_, ProtoEventOf(msg))]_vars

\* a PairingRequest from the factory peer lies on the application's queue as
\* an ordinary event
C14_Witness ==
    /\ last.op = "handlePacket"
    /\ last.note = "forwarded"
    /\ last.ret.type = MsgPairingRequest
    /\ last.ret.src = TEST_UNIT_MAC_
    /\ s_proto_event_queue_ # <<>>
    /\ s_proto_event_queue_[Len(s_proto_event_queue_)] = ProtoEventOf(last.ret)

\* a step after which the MACs of hist.removed in macs are not approved, and
\* in which a well-formed message of no handshake type from one of them adds
\* nothing to the application's queue
RemovedStayOut(macs) ==
    /\ \A mac \in hist'.removed \cap macs : ~ApprovedSource(mac)'
    /\ RxStep => LET msg == RxMsg IN
          (/\ DecodeError(msg) = "ok"
           /\ msg.type \notin HandshakeTypes
           /\ msg.src \in hist.removed \cap macs)
          => UNCHANGED s_proto_event_queue_

AllMacs ==
    {ZERO_MAC, BROADCAST_MAC, TEST_UNIT_MAC_, PEER_A, PEER_B, PEER_C, PEER_D, PEER_E}

C16_FactoryAlwaysApproved ==
    /\ s_has_preconfigured
    /\ IsPeerApproved(s_security_, s_has_preconfigured, TEST_UNIT_MAC_)
    /\ nvs.blob # NoBlob
       => /\ DOMAIN nvs.blob = Slots
          /\ \A i \in Slots : nvs.blob[i] # PreconfiguredPeer

\* RemovePeer was called for the factory MAC and ClearAll has emptied the
\* table and the blob, and the factory MAC is approved
C16_Witness ==
    /\ TEST_UNIT_MAC_ \in hist.removed
    /\ last.op = "ClearAll"
    /\ s_security_ = EmptySettings
    /\ nvs.blob = EmptySettings
    /\ ApprovedSource(TEST_UNIT_MAC_)

\* C17: in every reachable state the broadcast MAC is not approved and no
\* valid table entry holds it, whatever AddApprovedPeer calls and pairing
\* handshakes came before.
C17_BroadcastNeverApproved ==
    /\ ~IsPeerApproved(s_security_, s_has_preconfigured, BROADCAST_MAC)
    /\ \A i \in Slots : s_security_[i].valid => s_security_[i].mac # BROADCAST_MAC

\* a pairing completed on a PairingResponse whose responder_mac is the
\* broadcast address, and the table and the persisted blob hold that address
C17_Witness ==
    /\ last.op = "handlePacket"
    /\ last.note = "complete"
    /\ last.ret.payload.responder_mac = BROADCAST_MAC
    /\ s_pairing_state_ = "Complete"
    /\ \E i \in Slots :
          /\ s_security_[i].valid /\ s_security_[i].mac = BROADCAST_MAC
          /\ nvs.blob[i].valid /\ nvs.blob[i].mac = BROADCAST_MAC
    /\ ApprovedSource(BROADCAST_MAC)

\* C18: in every reachable state the all-zero MAC is not approved, no valid
\* table entry holds it and the factory peer, when provisioned, does not hold
\* it; and AddApprovedPeer with the all-zero MAC returns false and leaves the
\* table and the persisted blob as they were.
C18_ZeroMacNeverValid ==
    /\ [](/\ ~IsPeerApproved(s_security_, s_has_preconfigured, ZERO_MAC)
          /\ \A i \in Slots : s_security_[i].valid => s_security_[i].mac # ZERO_MAC
          /\ s_has_preconfigured => PreconfiguredPeer.mac # ZERO_MAC)
    /\ [][(last'.op = "AddApprovedPeer" /\ last'.note[1] = ZERO_MAC)
           => /\ last'.ret = FALSE
              /\ UNCHANGED <<s_security_, nvs>>]_vars

\* AddApprovedPeer with the all-zero MAC was refused although the table has a
\* free slot
C18_Witness ==
    /\ last.op = "AddApprovedPeer"
    /\ last.note[1] = ZERO_MAC
    /\ last.ret = FALSE
    /\ \E i \in Slots : ~s_security_[i].valid

\* all MAX_APPROVED_PEERS slots hold a valid entry
TableFull == \A i \in Slots : s_security_[i].valid

\* the slots whose valid entry holds mac
EntriesFor(mac) == {i \in Slots : s_security_[i].valid /\ s_security_[i].mac = mac}

\* C19: with all four slots valid, AddApprovedPeer of a MAC that is not in the
\* table returns false and leaves table and persisted blob unchanged, while
\* AddApprovedPeer of a MAC that is in the table returns true and updates the
\* device type and the name of that entry and nothing else in the table; and a
\* verified, confirmed PairingResponse whose responder finds no slot ends the
\* session in Failed with table, blob and event queue unchanged.
C19_TableFullBoundary ==
    [][TableFull =>
        /\ (last'.op = "AddApprovedPeer" /\ EntriesFor(last'.note[1]) = {})
           => /\ last'.ret = FALSE
              /\ UNCHANGED <<s_security_, nvs>>
        /\ (last'.op = "AddApprovedPeer" /\ EntriesFor(last'.note[1]) # {})
           => /\ last'.ret = TRUE
              /\ \E i \in EntriesFor(last'.note[1]) :
                    s_security_' =
                      [s_security_ EXCEPT
                         ![i].device_type = last'.note[2],
                         ![i].name = IF last'.note[3] = NoName THEN @
                                     ELSE last'.note[3]]
        /\ RxStep => LET msg == RxMsg IN
              (/\ DecodeError(msg) = "ok"
               /\ msg.type = MsgPairingResponse
               /\ msg.len >= PairingResponsePayloadSize
               /\ msg.payload.device_type = DevFatigueTester
               /\ s_pairing_state_ = "WaitingForResponse"
               /\ AnswersChallenge(msg, s_my_challenge_)
               /\ ConfirmSent(msg)
               /\ EntriesFor(msg.payload.responder_mac) = {})
              => /\ s_pairing_state_' = "Failed"
                 /\ UNCHANGED <<s_security_, nvs, s_proto_event_queue_>>]_vars

\* a pairing whose PairingConfirm went out found the table full and failed
\* without an event
C19_Witness ==
    /\ TableFull
    /\ last.op = "handlePacket"
    /\ last.note = "add_failed"
    /\ s_pairing_state_ = "Failed"
    /\ s_proto_event_queue_ = <<>>
    /\ Len(tx) = 1
    /\ tx[1].type = MsgPairingConfirm

\* AddPeer stored mac in this step: in the slot that held it, or else in the
\* free slot of lowest index, every other slot staying as it was
Upserted(mac) ==
    \E i \in Slots :
       /\ IF EntriesFor(mac) # {}
          THEN i \in EntriesFor(mac)
          ELSE /\ ~s_security_[i].valid
               /\ \A j \in Slots : j < i => s_security_[j].valid
       /\ s_security_'[i].valid
       /\ s_security_'[i].mac = mac
       /\ \A j \in Slots \ {i} : s_security_'[j] = s_security_[j]

C21_TargetIsResponder ==
    (last.op = "handlePacket" /\ last.note = "complete")
    => GetTargetDeviceMac(s_security_, s_has_preconfigured) =
          [ok |-> TRUE, mac |-> last.ret.payload.responder_mac]

\* C21 as the code has it: after such a pairing the responder is a valid
\* table entry of type FatigueTester, and GetTargetDeviceMac returns the
\* factory MAC when a factory peer is provisioned, as it is in this build;
\* the table alone would give the responder's MAC only if no valid
\* FatigueTester entry sits in a lower slot.
C21_TargetIsFactoryOrFirstEntry ==
    (last.op = "handlePacket" /\ last.note = "complete")
    => LET mac == last.ret.payload.responder_mac
           at == EntriesFor(mac)
           lower == {j \in Slots : /\ \A i \in at : j < i
                                   /\ s_security_[j].valid
                                   /\ s_security_[j].device_type = DevFatigueTester}
       IN  /\ at # {}
           /\ \A i \in at : s_security_[i].device_type = DevFatigueTester
           /\ s_has_preconfigured
              => GetTargetDeviceMac(s_security_, s_has_preconfigured) =
                    [ok |-> TRUE, mac |-> TEST_UNIT_MAC_]
           /\ GetTargetDeviceMac(s_security_, FALSE).ok
           /\ (GetTargetDeviceMac(s_security_, FALSE).mac = mac) <=> (lower = {})

\* a pairing with a responder other than the factory unit completed, the
\* responder sits in slot 1, and the target is the factory MAC
C21_Witness ==
    /\ last.op = "handlePacket"
    /\ last.note = "complete"
    /\ last.ret.payload.responder_mac = PEER_A
    /\ s_security_[1].valid /\ s_security_[1].mac = PEER_A
    /\ GetTargetDeviceMac(s_security_, s_has_preconfigured).mac = TEST_UNIT_MAC_

\* C22: a call of GetFirstPeerOfType(type) returns the factory MAC if a
\* factory peer is provisioned and has that type; otherwise the MAC of the
\* valid table entry of that type with the lowest index; otherwise nothing.
\* The call changes neither the table, the persisted blob and checksum, the
\* factory peer, the pairing session, the sequence counter nor the queues.
C22_FirstPeerOfType ==
    [][last'.op = "GetFirstPeerOfType"
       => LET type == last'.note[1]
              r == last'.ret
              factory == s_has_preconfigured /\ DevFatigueTester = type
              matches == {i \in Slots : /\ s_security_[i].valid
                                        /\ s_security_[i].device_type = type}
          IN  /\ factory => r = [ok |-> TRUE, mac |-> TEST_UNIT_MAC_]
              /\ (~factory /\ matches # {})
                   => /\ r.ok
                      /\ \E i \in matches :
                            /\ \A j \in matches : i <= j
                            /\ r.mac = s_security_[i].mac
              /\ (~factory /\ matches = {}) => ~r.ok
              /\ UNCHANGED <<s_security_, nvs, s_has_preconfigured,
                             s_pairing_state_, s_my_challenge_,
                             s_pending_responder_mac_, s_pairing_timeout_tick_,
                             s_next_msg_id_, s_raw_recv_queue_,
                             s_proto_event_queue_>>]_vars

\* a lookup of RemoteController found PEER_C behind a valid FatigueTester
\* entry in slot 1; the factory peer has another type
C22_Witness ==
    /\ last.op = "GetFirstPeerOfType"
    /\ last.note = <<DevRemoteController>>
    /\ last.ret = [ok |-> TRUE, mac |-> PEER_C]
    /\ s_security_[1].valid
    /\ s_security_[1].device_type = DevFatigueTester
    /\ \E i \in Slots : i > 1 /\ s_security_[i].valid /\ s_security_[i].mac = PEER_C

\* what a RemoveApprovedPeer step does to table, session and queues: nothing
\* for a MAC no valid entry holds; else one slot holding the MAC has every
\* field zeroed, the other slots, the pairing session and the queued events
\* stay as they were
RemovePeerFrame ==
    last'.op = "RemoveApprovedPeer"
    => LET mac == last'.note
           at == {i \in Slots : s_security_[i].valid /\ s_security_[i].mac = mac}
       IN  /\ at = {} => (~last'.ret /\ s_security_' = s_security_ /\ nvs' = nvs)
           /\ at # {}
              => /\ last'.ret
                 /\ \E i \in at :
                       /\ s_security_'[i] =
                             [mac |-> ZERO_MAC, device_type |-> 0, name |-> <<>>,
                              paired_timestamp |-> 0, valid |-> FALSE]
                       /\ \A j \in Slots \ {i} : s_security_'[j] = s_security_[j]
                 /\ UNCHANGED <<s_pairing_state_, s_my_challenge_,
                                s_pending_responder_mac_, s_pairing_timeout_tick_,
                                s_proto_event_queue_, s_raw_recv_queue_>>

\* C23: RemovePeer(mac) for a MAC absent from the table changes neither the
\* table nor the persisted blob; for a present MAC it zeroes every field of
\* exactly that slot, leaves the other slots, the pairing session and the
\* queued ProtocolEvents unchanged, and the persisted blob and checksum are
\* those of the new table.
C23_RemovePeerFrame ==
    [][/\ RemovePeerFrame
       /\ (last'.op = "RemoveApprovedPeer" /\ last'.ret)
           => nvs' = [blob |-> s_security_', crc |-> Crc32(s_security_')]]_vars

\* RemoveApprovedPeer(PEER_C) returned true during a pairing session with an
\* event queued, the table no longer holds PEER_C, and the persisted table
\* with its matching checksum still does
C23_Witness ==
    /\ last.op = "RemoveApprovedPeer"
    /\ last.note = PEER_C
    /\ last.ret
    /\ EntriesFor(PEER_C) = {}
    /\ s_pairing_state_ = "WaitingForResponse"
    /\ s_proto_event_queue_ # <<>>
    /\ nvs.crc = Crc32(nvs.blob)
    /\ \E i \in Slots : nvs.blob[i].valid /\ nvs.blob[i].mac = PEER_C

\* C24: after PeerStore::Init, at boot or at a restart, the in-memory table
\* equals the stored blob exactly if the blob is present, has one entry per
\* table slot, the checksum is present and is the checksum of the blob; in
\* every other case, and when NVS cannot be opened, no entry of the table is
\* valid.
C24_LoadAllOrNothing ==
    last.op \in {"Init", "Restart"}
    => LET trusted == /\ last.ret
                      /\ nvs.blob # NoBlob
                      /\ DOMAIN nvs.blob = Slots
                      /\ nvs.crc # NoBlob
                      /\ nvs.crc = Crc32(nvs.blob)
       IN  IF trusted
           THEN s_security_ = nvs.blob
           ELSE \A i \in Slots : ~s_security_[i].valid

\* a restart opened NVS and found a blob of the right size with valid
\* entries beside a checksum of another table, and loaded nothing
C24_Witness ==
    /\ last.op = "Restart"
    /\ last.ret
    /\ DOMAIN nvs.blob = Slots
    /\ \E i \in Slots : nvs.blob[i].valid
    /\ nvs.crc # NoBlob
    /\ nvs.crc # Crc32(nvs.blob)
    /\ \A i \in Slots : ~s_security_[i].valid

\* C25: every call that saves the table (AddPeer, RemovePeer, ClearAll)
\* leaves the persisted blob and checksum either both as they were or both
\* those of the table it saved, whichever of the two writes fails.
C25_SaveTransactional ==
    [][last'.op \in {"AddApprovedPeer", "RemoveApprovedPeer", "ClearAll"}
       => \/ nvs' = nvs
          \/ nvs' = [blob |-> s_security_', crc |-> Crc32(s_security_')]]_vars

\* AddApprovedPeer returned true on the sparse table loaded at boot; the
\* persisted blob is the new table and the persisted checksum is still the
\* one of the table loaded at boot
C25_Witness ==
    /\ last.op = "AddApprovedPeer"
    /\ last.ret
    /\ nvs.blob = s_security_
    /\ nvs.blob # SparseSettings
    /\ nvs.crc = Crc32(SparseSettings)

\* C26: whenever AddPeer or RemovePeer has returned success, loading the
\* persisted blob and checksum as a restart does gives the in-memory table.
C26_PersistOnSuccess ==
    (last.op \in {"AddApprovedPeer", "RemoveApprovedPeer"} /\ last.ret)
    => Load(nvs) = s_security_

\* AddApprovedPeer(PEER_A) returned true, the table holds PEER_A, and the
\* table a restart would load, from an intact blob and checksum, does not
C26_Witness ==
    /\ last.op = "AddApprovedPeer"
    /\ last.ret
    /\ EntriesFor(PEER_A) # {}
    /\ nvs.crc = Crc32(nvs.blob)
    /\ \E i \in Slots : Load(nvs)[i].valid
    /\ \A i \in Slots : Load(nvs)[i].mac # PEER_A

\* a datagram of the raw queue that handlePacket must discard
Malformed(data) ==
    LET n == Len(data)
        len == data[HEADER_SIZE]
    IN  \/ n < HEADER_SIZE + CRC_SIZE
        \/ data[1] # SYNC_BYTE_
        \/ data[2] # PROTOCOL_VERSION_
        \/ len > MAX_PAYLOAD_SIZE_
        \/ n < HEADER_SIZE + len + CRC_SIZE
        \/ crc16_ccitt(data, HEADER_SIZE + len) #
              data[HEADER_SIZE + len + 1] + 256 * data[HEADER_SIZE + len + 2]

\* C27: a datagram that is shorter than header and CRC, has a wrong sync
\* byte or version, declares more than 200 payload bytes or more than it
\* holds, or whose CRC-16 does not match, is discarded: whether espnowRecvCb
\* drops it or recvTask takes it from the raw queue, no event is queued,
\* pairing state, challenge, pending responder, deadline, peer table,
\* persisted table and sequence counter stay as they were and nothing is sent.
C27_MalformedDiscarded ==
    [][(\/ last'.op = "espnowRecvCb" /\ s_raw_recv_queue_' = s_raw_recv_queue_
        \/ /\ last'.op = "handlePacket"
           /\ s_raw_recv_queue_ # <<>>
           /\ Malformed(Head(s_raw_recv_queue_).data))
       => /\ UNCHANGED <<s_proto_event_queue_, s_pairing_state_, s_my_challenge_,
                         s_pending_responder_mac_, s_pairing_timeout_tick_,
                         s_security_, nvs, s_next_msg_id_>>
          /\ tx' = <<>>
          /\ last'.op = "handlePacket"
              => last'.note \in {"bad_sync", "bad_version", "bad_length",
                                 "truncated", "crc_mismatch"}]_vars

\* during a pairing session recvTask discarded a datagram of the factory
\* peer that carries another protocol version and the CRC of its own bytes
C27_Witness ==
    /\ last.op = "handlePacket"
    /\ last.note = "bad_version"
    /\ s_pairing_state_ = "WaitingForResponse"
    /\ s_proto_event_queue_ = <<>>
    /\ tx = <<>>

\* C28: when recvTask handles the bytes sendPacketTo built for a datagram,
\* undamaged, handlePacket accepts them and reads back the device_id, message
\* type, sequence number, payload length and payload bytes that were sent,
\* for payloads of 0 to 200 bytes; from an approved source, with room in the
\* event queue, the event carries these same fields.
C28_RoundTrip ==
    [][(/\ last'.op = "handlePacket"
        /\ s_raw_recv_queue_ # <<>>
        /\ Head(s_raw_recv_queue_).corrupt[1] = "none")
       => LET raw == Head(s_raw_recv_queue_)
              sent == raw.sent
              bytes == SubSeq(sent.payload, 1, sent.len)
          IN  /\ last'.note \in {"forwarded", "gate_rejected"}
              /\ last'.ret.device_id = sent.device_id
              /\ last'.ret.type = sent.type
              /\ last'.ret.id = sent.id
              /\ last'.ret.len = sent.len
              /\ last'.ret.payload = bytes
              /\ (raw.src = TEST_UNIT_MAC_
                    /\ Len(s_proto_event_queue_) < ProtoQueueLen)
                  => s_proto_event_queue_' =
                        Append(s_proto_event_queue_,
                               [type |-> sent.type, device_id |-> sent.device_id,
                                sequence_id |-> sent.id, payload |-> bytes,
                                payload_len |-> sent.len, src_mac |-> raw.src])]_vars

\* a command of device 255 with 199 payload bytes behind the command byte,
\* 200 in all, came back from the factory peer and is queued as an event
C28_Witness ==
    /\ last.op = "handlePacket"
    /\ last.note = "forwarded"
    /\ last.ret.type = MsgCommand
    /\ last.ret.device_id = 255
    /\ last.ret.len = MAX_PAYLOAD_SIZE_
    /\ last.ret.payload = <<1>> \o Payload(MAX_PAYLOAD_SIZE_ - 1)
    /\ s_proto_event_queue_ # <<>>
    /\ s_proto_event_queue_[1].payload = last.ret.payload
    /\ s_proto_event_queue_[1].payload_len = MAX_PAYLOAD_SIZE_

\* C29: when recvTask handles the bytes of a sent datagram with one bit
\* inverted, in the header, the payload or the CRC field, handlePacket
\* rejects them and queues no event.
C29_SingleBitFlipRejected ==
    [][(/\ last'.op = "handlePacket"
        /\ s_raw_recv_queue_ # <<>>
        /\ Head(s_raw_recv_queue_).corrupt[1] = "flip")
       => /\ last'.note \in {"bad_sync", "bad_version", "bad_length",
                              "truncated", "crc_mismatch"}
          /\ s_proto_event_queue_' = s_proto_event_queue_]_vars

\* handlePacket accepted ten bytes as a ConfigSet without payload, which no
\* send builds, and queued the event: the two-byte ConfigSet with bit 1 of
\* its length byte inverted
C29_Witness ==
    /\ last.op = "handlePacket"
    /\ last.note = "forwarded"
    /\ last.ret.type = MsgConfigSet
    /\ last.ret.nbytes = HEADER_SIZE + 2 + CRC_SIZE
    /\ last.ret.len = 0
    /\ s_proto_event_queue_ # <<>>
    /\ s_proto_event_queue_[1].type = MsgConfigSet
    /\ s_proto_event_queue_[1].payload_len = 0

\* the payload length a send step was asked for exceeds what a packet holds:
\* more than 200 bytes for SendConfigSet and sendPacketTo, more than 199
\* behind the command byte for SendCommand
Oversized(op, call) ==
    \/ op = "SendConfigSet" /\ SizeGT(call.len, MAX_PAYLOAD_SIZE_)
    \/ op = "SendCommand" /\ SizeGT(call.len, MAX_PAYLOAD_SIZE_ - 1)
    \/ op = "sendPacketTo" /\ call.len > MAX_PAYLOAD_SIZE_

\* C30: a call of SendConfigSet, SendCommand or sendPacketTo whose payload
\* length exceeds the maximum (for SendCommand with its command byte)
\* returns false to the caller, hands nothing to the transport and leaves
\* the sequence counter as it was.
C30_OversizedFailsLoudly ==
    [][(/\ last'.op \in {"SendConfigSet", "SendCommand", "sendPacketTo"}
        /\ Oversized(last'.op, last'.note[1]))
       => /\ last'.note[2] = "returned"
          /\ last'.ret = FALSE
          /\ tx' = <<>>
          /\ s_next_msg_id_' = s_next_msg_id_]_vars

\* SendCommand with a payload length of SIZE_MAX returned true, a Command
\* without payload went to the transport and the sequence counter advanced
C30_Witness ==
    /\ last.op = "SendCommand"
    /\ last.note[1].len = SIZE_MAX
    /\ last.note[2] = "returned"
    /\ last.ret
    /\ tx # <<>>
    /\ tx[1].type = MsgCommand
    /\ tx[1].len = 0
    /\ s_next_msg_id_ = 2

AdmissibleLength(msg) ==
    /\ msg.nbytes >= HEADER_SIZE + CRC_SIZE
    /\ msg.nbytes <= HEADER_SIZE + MAX_PAYLOAD_SIZE_ + CRC_SIZE

\* C32: receive interrupt handoff. A call of the receive callback changes no
\* pairing state, no peer-store state, no persisted data, no event and sends
\* nothing; a datagram of admissible length is appended to the raw queue as
\* it arrived, whatever its CRC, when the queue holds fewer than 10 datagrams;
\* otherwise the raw queue is left as it was. The callback returns in every
\* case.
C32_InterruptHandoff ==
    [][last'.op = "espnowRecvCb"
       => LET msg == last'.ret IN
          /\ ProtocolUntouched
          /\ UNCHANGED <<s_has_preconfigured, rx_pc, rx_msg>>
          /\ s_raw_recv_queue_' =
                IF AdmissibleLength(msg) /\ Len(s_raw_recv_queue_) < RAW_QUEUE_LEN
                THEN Append(s_raw_recv_queue_, msg)
                ELSE s_raw_recv_queue_
          /\ Len(s_raw_recv_queue_') <= RAW_QUEUE_LEN]_vars

\* the raw queue holds ten datagrams, the newest one with a CRC that does not
\* match, and the callback returned after dropping a well-formed StatusUpdate
C32_Witness ==
    /\ last.op = "espnowRecvCb"
    /\ last.note = "queue_full"
    /\ last.ret = BurstStatus
    /\ Len(s_raw_recv_queue_) = RAW_QUEUE_LEN
    /\ ~s_raw_recv_queue_[RAW_QUEUE_LEN].crc_ok
    /\ s_raw_recv_queue_[1].id = 1

\* C33: single-writer invariant. Every step that changes the approved-peer
\* table or the pairing session (state, challenge, pending responder,
\* deadline) is a step of the receive task handling a datagram.
C33_SingleWriter ==
    [][(\/ s_security_' # s_security_
        \/ s_pairing_state_' # s_pairing_state_
        \/ s_my_challenge_' # s_my_challenge_
        \/ s_pending_responder_mac_' # s_pending_responder_mac_
        \/ s_pairing_timeout_tick_' # s_pairing_timeout_tick_)
       => last'.op \in {"handlePacket", "handlePairingResponse"}]_vars

\* recvTask is inside handlePairingResponse, past the checks and about to add
\* the peer, and CancelPairing on the application task has just written Idle
\* into the session state
C33_Witness ==
    /\ rx_pc = "add"
    /\ last.op = "CancelPairing"
    /\ last.note = "cancelled"
    /\ s_pairing_state_ = "Idle"
    /\ s_pending_responder_mac_ = rx_msg.payload.responder_mac

\* C34: sequence ids. The packets a step hands to the transport carry ids
\* the counter passes in that step, each id once: the first one the value
\* the counter had, the counter one ahead of the last one modulo 256, so that
\* the ids of packets fewer than 256 sends apart differ, whichever task
\* sends.
C34_SequenceIds ==
    [][LET built == (s_next_msg_id_' + 256 - s_next_msg_id_) % 256 IN
       \A k \in 1..Len(tx') :
          /\ (tx'[k].id + 256 - s_next_msg_id_) % 256 < built
          /\ \A j \in 1..(k - 1) : tx'[j].id # tx'[k].id]_vars

\* recvTask has loaded the id for its PairingConfirm and not yet stored the
\* increment; SendDeviceDiscovery on the application task has just sent a
\* packet with that same id
C34_Witness ==
    /\ rx_pc = "send"
    /\ last.op = "SendDeviceDiscovery"
    /\ last.ret
    /\ Len(tx) = 1
    /\ tx[1].id = rx_msg.id
    /\ s_next_msg_id_ = (rx_msg.id + 1) % 256

\* the MACs with a valid entry in the table
ValidMacs(sec) == {sec[i].mac : i \in {j \in Slots : sec[j].valid}}

\* C35: the peer table with both tasks at work. No two valid entries hold
\* the same MAC, and a MAC with a valid entry keeps one unless
\* RemoveApprovedPeer is called for it or the table is cleared: no add that
\* succeeded is lost to or overwritten by the other task.
C35_TableInvariants ==
    [][/\ \A i, j \in Slots :
             (i # j /\ s_security_'[i].valid /\ s_security_'[j].valid)
             => s_security_'[i].mac # s_security_'[j].mac
       /\ \A mac \in ValidMacs(s_security_) \ ValidMacs(s_security_') :
             \/ last'.op = "ClearAll"
             \/ last'.op = "RemoveApprovedPeer" /\ last'.note = mac]_vars

\* the pairing completed and the table holds the responder in two slots:
\* AddApprovedPeer for the same MAC ran between the two loops of recvTask's
\* AddPeer
C35_Witness ==
    /\ last.op = "handlePairingResponse"
    /\ last.note = "complete"
    /\ s_pairing_state_ = "Complete"
    /\ \E i, j \in Slots :
          /\ i < j
          /\ s_security_[i].valid /\ s_security_[j].valid
          /\ s_security_[i].mac = PEER_A /\ s_security_[j].mac = PEER_A

\* C36: under weak fairness of recvTask every datagram the callback put into
\* the raw queue is eventually taken and handled. recvTask takes the oldest
\* datagram, handles exactly that one and waits again; every other step
\* leaves the queued datagrams in place and in order and appends at most one.
\* A datagram that is queued while the others are ahead of it is therefore
\* handled once, after them.
C36_QueuedIsHandled ==
    /\ [][IF RxStep
          THEN /\ last'.op = "handlePacket"
               /\ last'.ret = RxMsg
               /\ rx_pc' = "wait"
          ELSE /\ Len(s_raw_recv_queue_') \in
                     {Len(s_raw_recv_queue_), Len(s_raw_recv_queue_) + 1}
               /\ SubSeq(s_raw_recv_queue_', 1, Len(s_raw_recv_queue_))
                     = s_raw_recv_queue_]_vars
    /\ \A p \in BurstProbes :
          (\E k \in 1..Len(s_raw_recv_queue_) : s_raw_recv_queue_[k] = p)
             ~> (/\ last.op = "handlePacket"
                 /\ last.ret = p
                 /\ \A k \in 1..Len(s_raw_recv_queue_) : s_raw_recv_queue_[k] # p)

\* the StatusUpdate with sequence id 2 has been handled while the event
\* queue was full, and the nine datagrams that arrived after it wait
C36_Witness ==
    /\ last.op = "handlePacket"
    /\ last.ret \in BurstProbes
    /\ last.ret.id = 2
    /\ last.note = "forwarded"
    /\ Len(s_raw_recv_queue_) = RAW_QUEUE_LEN - 1
    /\ Len(s_proto_event_queue_) = ProtoQueueLen
    /\ s_proto_event_queue_[1].sequence_id = 1

\* C37: the deadline is enforced only by polling. A PairingResponse that
\* passes the type and HMAC checks and is handled while the session is still
\* WaitingForResponse, after more than the response timeout has passed since
\* StartPairing and the tick count is past the deadline, is accepted like one
\* in time: the responder becomes the pending responder, and with the
\* confirm sent and a slot at hand it is stored and the session becomes
\* Complete.
C37_LateResponseAccepted ==
    [][RxStep => LET msg == RxMsg IN
          (/\ DecodeError(msg) = "ok"
           /\ msg.type = MsgPairingResponse
           /\ msg.len >= PairingResponsePayloadSize
           /\ msg.payload.device_type = DevFatigueTester
           /\ s_pairing_state_ = "WaitingForResponse"
           /\ AnswersChallenge(msg, s_my_challenge_)
           /\ TickGT(Elapsed, ResponseTimeout)
           /\ TickGT(tick, s_pairing_timeout_tick_))
          => /\ s_pending_responder_mac_' = msg.payload.responder_mac
             /\ ConfirmSent(msg) \/ s_pairing_state_' = "Failed"
             /\ (ConfirmSent(msg) /\ HasSlotFor(msg.payload.responder_mac))
                => /\ s_pairing_state_' = "Complete"
                   /\ \E i \in Slots :
                         /\ s_security_'[i].valid
                         /\ s_security_'[i].mac = msg.payload.responder_mac]_vars

\* a response handled one tick after the deadline completed the pairing
C37_Witness ==
    /\ last.op = "handlePacket"
    /\ last.note = "complete"
    /\ s_pairing_state_ = "Complete"
    /\ TickGT(tick, s_pairing_timeout_tick_)
    /\ TickGT(Elapsed, ResponseTimeout)
    /\ \E i \in Slots : /\ s_security_[i].valid
                        /\ s_security_[i].mac = last.ret.payload.responder_mac

\* C38: whenever recvTask, handling a response, has sent a PairingConfirm with
\* success = 1, the handling ends with the session Complete and the MAC the
\* confirm went to in a valid entry of the table.
C38_ConfirmMeansPaired ==
    [][RxStep
       => \A k \in 1..Len(tx') :
             (tx'[k].type = MsgPairingConfirm /\ tx'[k].payload.success = 1)
             => /\ s_pairing_state_' = "Complete"
                /\ tx'[k].dst \in ValidMacs(s_security_')]_vars

\* the table was full: the PairingConfirm with success = 1 went to the
\* responder, AddPeer found no slot and the session ended as Failed
C38_Witness ==
    /\ last.op = "handlePacket"
    /\ last.note = "add_failed"
    /\ s_pairing_state_ = "Failed"
    /\ Len(tx) = 1
    /\ tx[1].type = MsgPairingConfirm
    /\ tx[1].payload.success = 1
    /\ tx[1].dst = PEER_A
    /\ PEER_A \notin ValidMacs(s_security_)
    /\ \A i \in Slots : s_security_[i].valid

\* C39: for every value of the tick counter, GetPairingState called on a
\* waiting session returns Failed only if at least the response timeout has
\* passed since the StartPairing that opened the session, and returns Failed
\* whenever more than the timeout has passed, the elapsed time being the
\* difference of the tick counts modulo 2^32.
C39_TimeoutAcrossWrap ==
    [][(last'.op = "GetPairingState" /\ s_pairing_state_ = "WaitingForResponse")
       => /\ last'.ret = "Failed" => ~TickGT(ResponseTimeout, Elapsed)
          /\ TickGT(Elapsed, ResponseTimeout) => last'.ret = "Failed"]_vars

\* the session started one tick before the deadline would wrap; the counter
\* has wrapped since, more than the timeout has passed, and GetPairingState
\* still returns WaitingForResponse
C39_Witness ==
    /\ last.op = "GetPairingState"
    /\ last.ret = "WaitingForResponse"
    /\ s_pairing_state_ = "WaitingForResponse"
    /\ TickGT(Elapsed, ResponseTimeout)
    /\ TickGT(hist.started, tick)
    /\ TickGT(s_pairing_timeout_tick_, hist.started)

\* C40: a StartPairing called in Idle whose broadcast is not transmitted
\* returns false, leaves the session Idle and the deadline as it was, and has
\* replaced the stored challenge by a generated one; the StartPairing that
\* follows such a failure, when its broadcast is transmitted, returns true
\* and opens the session, no CancelPairing being needed in between.
C40_FailedStartLeavesIdle ==
    [][/\ (last'.op = "StartPairing" /\ s_pairing_state_ = "Idle" /\ tx' = <<>>)
          => /\ last'.ret = FALSE
             /\ s_pairing_state_' = "Idle"
             /\ s_pairing_timeout_tick_' = s_pairing_timeout_tick_
             /\ s_my_challenge_' \in Challenges
             /\ s_proto_event_queue_' = s_proto_event_queue_
       /\ (/\ last.op = "StartPairing" /\ last.ret = FALSE /\ tx = <<>>
           /\ s_pairing_state_ = "Idle"
           /\ last'.op = "StartPairing" /\ tx' # <<>>)
          => /\ last'.ret = TRUE
             /\ s_pairing_state_' = "WaitingForResponse"
             /\ TickSub(s_pairing_timeout_tick_', tick) = ResponseTimeout
             /\ s_my_challenge_' = tx'[1].payload.challenge]_vars

\* the first StartPairing after boot failed to send: the session is Idle,
\* the deadline is still the initial one and a challenge has been stored
C40_Witness ==
    /\ last = [op |-> "StartPairing", ret |-> FALSE, note |-> "send_failed"]
    /\ s_pairing_state_ = "Idle"
    /\ tx = <<>>
    /\ s_pairing_timeout_tick_ = TickOf(0, 0)
    /\ s_my_challenge_ \in Challenges
    /\ n_ops = 1

====
